---- MODULE Spec2Model ----
(***************************************************************************)
(* Appointment optimizer: route construction (open path and round trip),   *)
(* schedule generation, the distance endpoints with their haversine        *)
(* fallback, and the optimize handlers that persist the result.            *)
(*                                                                         *)
(* Distances are integers in micro-miles (1e-6 mile), provider distances   *)
(* in meters, times in minutes.  JavaScript arrays are 0-based; sequences  *)
(* here are 1-based, so index k of the source is index k+1 here.           *)
(***************************************************************************)
EXTENDS Integers, Sequences, FiniteSets, TLC

VARIABLES
  appointments,      \* the stops handed to a builder or generator, in order
  startingLocation,  \* [isSet, coordinates]
  startTime,         \* the "HH:MM" start time, as [hh, mm]
  googleStatus,      \* top-level status of the provider's answers
  oneWay,            \* the provider's detours (see ProviderMeters)
  builder,           \* which route builder has run ("none" before)
  usedMatrix,        \* the matrix a client builder ran with
  optimizedRoute,    \* the builder's result
  totalDistance,     \* the total the builder computed for its result
  generator,         \* which schedule generator has run ("none" before)
  suggestedTimes,    \* the formatted arrival times it emitted
  arrivalInstants,   \* the Date values behind them, minutes since 00:00 of day 0
  returnTime,        \* the formatted return time, NoTime when null
  pc,                \* position of the page's optimizeAppointments invocation
  isOptimizing,      \* the page's isOptimizing state
  matrixOutcome,     \* how the invocation's distance-matrix request settled
  optimizedAppointments, \* the invocation's local optimizedAppointments
  measuredLegs,      \* what calculateDrivingDistance gave for the legs of the total
  renderedAppointments, \* the appointments the running invocation closed over
  reqOrigins,        \* origins of a POST /api/distance-matrix request
  reqDestinations,   \* its destinations
  failingCells,      \* the cells the provider reports as failed for it
  matrixResponse,    \* the endpoint's response, NoResponse before
  db,                \* the appointment table, rows in createdAt desc order
  calls,             \* the optimize requests being handled, by call
  deletes,           \* how many appointments have been deleted
  apiRequest,        \* a request as it reaches an endpoint, NoRequest before
  apiResponse        \* the endpoint's answer to it

inputVars == <<appointments, startingLocation, startTime, googleStatus, oneWay>>
routeVars == <<builder, usedMatrix, optimizedRoute, totalDistance>>
schedVars == <<generator, suggestedTimes, arrivalInstants, returnTime>>

clientVars == <<pc, isOptimizing, matrixOutcome, optimizedAppointments, measuredLegs,
               renderedAppointments>>

matrixVars == <<reqOrigins, reqDestinations, failingCells, matrixResponse>>

serverVars == <<db, calls, deletes>>

\* One request to an endpoint's boundary and the answer it gets.
apiVars == <<apiRequest, apiResponse>>

vars == <<inputVars, routeVars, schedVars, clientVars, matrixVars, serverVars, apiVars>>

\* ------------------------------------------------------------------ bounds
MaxStops == 3

\* --------------------------------------------------------------- constants
\* `let nearestDistance = Infinity`: larger than every distance of the model.
Infinity == 2000000000
\* 0.000621371 miles per meter, written in micro-miles per kilometer.
MicroMilesPerKm == 621371
\* `3, // 3 minutes per mile`
MinutesPerMile == 3

\* ------------------------------------------------------------------ values
Coord(la, ln) == [lat |-> la, lng |-> ln]

\* useState<StartingLocation>: no starting location set.
NoLocation == [isSet |-> FALSE, coordinates |-> Coord(0, 0)]

\* The addresses of the model, in whole degrees.  (0,1) and (1,0) have a
\* zero latitude or longitude; (1,0) and (1,2) are equidistant from (0,1)
\* and from (1,1).
Coords == {Coord(0, 1), Coord(1, 0), Coord(1, 1), Coord(1, 2)}

Durations == {30, 60}

Abs(x) == IF x < 0 THEN -x ELSE x

RECURSIVE SumSeq(_)
SumSeq(s) == IF s = <<>> THEN 0 ELSE Head(s) + SumSeq(Tail(s))

\* Mutant: splice(0, 1) instead of splice(nearestIndex, 1).
RemoveAtFirst(s, i) == Tail(s)

\* unvisited.splice(nearestIndex, 1)
RemoveAt(s, i) == SubSeq(s, 1, i - 1) \o SubSeq(s, i + 1, Len(s))

Range(s) == {s[i] : i \in 1..Len(s)}

\* Math.ceil(x / d) for x >= 0, d > 0.
CeilDiv(x, d) == (x + d - 1) \div d

\* -------------------------------------------------------------- haversine
\* R * 2 * atan2(sqrt(a), sqrt(1-a)) with
\*   a = sin^2(dLat/2) + cos(lat1) cos(lat2) sin^2(dLon/2),  R = 3959,
\* evaluated in double precision for the model's coordinates and rounded to
\* micro-miles.  lat1 and lat2 enter through the cosines and through dLat.
GreatCircleMiles(lat1, lat2, dLat, dLon) ==
  CASE lat1 = 0 /\ lat2 = 0 /\ dLat = 0  /\ dLon = -2 -> 138195170
    [] lat1 = 0 /\ lat2 = 0 /\ dLat = 0  /\ dLon = -1 -> 69097585
    [] lat1 = 0 /\ lat2 = 0 /\ dLat = 0  /\ dLon = 0  -> 0
    [] lat1 = 0 /\ lat2 = 0 /\ dLat = 0  /\ dLon = 1  -> 69097585
    [] lat1 = 0 /\ lat2 = 0 /\ dLat = 0  /\ dLon = 2  -> 138195170
    [] lat1 = 0 /\ lat2 = 1 /\ dLat = 1  /\ dLon = -2 -> 154500621
    [] lat1 = 0 /\ lat2 = 1 /\ dLat = 1  /\ dLon = -1 -> 97716261
    [] lat1 = 0 /\ lat2 = 1 /\ dLat = 1  /\ dLon = 0  -> 69097585
    [] lat1 = 0 /\ lat2 = 1 /\ dLat = 1  /\ dLon = 1  -> 97716261
    [] lat1 = 0 /\ lat2 = 1 /\ dLat = 1  /\ dLon = 2  -> 154500621
    [] lat1 = 1 /\ lat2 = 0 /\ dLat = -1 /\ dLon = -2 -> 154500621
    [] lat1 = 1 /\ lat2 = 0 /\ dLat = -1 /\ dLon = -1 -> 97716261
    [] lat1 = 1 /\ lat2 = 0 /\ dLat = -1 /\ dLon = 0  -> 69097585
    [] lat1 = 1 /\ lat2 = 0 /\ dLat = -1 /\ dLon = 1  -> 97716261
    [] lat1 = 1 /\ lat2 = 0 /\ dLat = -1 /\ dLon = 2  -> 154500621
    [] lat1 = 1 /\ lat2 = 1 /\ dLat = 0  /\ dLon = -2 -> 138174120
    [] lat1 = 1 /\ lat2 = 1 /\ dLat = 0  /\ dLon = -1 -> 69087061
    [] lat1 = 1 /\ lat2 = 1 /\ dLat = 0  /\ dLon = 0  -> 0
    [] lat1 = 1 /\ lat2 = 1 /\ dLat = 0  /\ dLon = 1  -> 69087061
    [] lat1 = 1 /\ lat2 = 1 /\ dLat = 0  /\ dLon = 2  -> 138174120
    \* latitudes at and beyond the ends of the valid range
    [] lat1 = 90 /\ lat2 = 90 /\ dLat = 0 /\ dLon = 0 -> 0
    [] lat1 = 90 /\ lat2 = 91 /\ dLat = 1 /\ dLon = 0 -> 69097585
    [] lat1 = 91 /\ lat2 = 90 /\ dLat = -1 /\ dLon = 0 -> 69097585
    [] lat1 = 91 /\ lat2 = 91 /\ dLat = 0 /\ dLon = 0 -> 0
    [] lat1 = -90 /\ lat2 = -90 /\ dLat = 0 /\ dLon = 0 -> 0
    [] lat1 = -90 /\ lat2 = -91 /\ dLat = -1 /\ dLon = 0 -> 69097585
    [] lat1 = -91 /\ lat2 = -90 /\ dLat = 1 /\ dLon = 0 -> 69097585
    [] lat1 = -91 /\ lat2 = -91 /\ dLat = 0 /\ dLon = 0 -> 0

\* Server-side haversine (both optimize routes define the same function).
calculateDistance(coord1, coord2) ==
  GreatCircleMiles(coord1.lat, coord2.lat,
                   coord2.lat - coord1.lat, coord2.lng - coord1.lng)

\* dLon taken as coord2.lng alone: coord1.lng is not subtracted.
calculateHaversineDistanceFromMeridian(coord1, coord2) ==
  GreatCircleMiles(coord1.lat, coord2.lat, coord2.lat - coord1.lat, coord2.lng)

\* Client-side and endpoint haversine.
calculateHaversineDistance(coord1, coord2) ==
  GreatCircleMiles(coord1.lat, coord2.lat,
                   coord2.lat - coord1.lat, coord2.lng - coord1.lng)

\* { lat: apt.latitude, lng: apt.longitude }
CoordOf(apt) == Coord(apt.latitude, apt.longitude)

\* ------------------------------------------------- nearest-neighbour scan
\* unvisited.forEach((appointment, index) => { if (skipped) return;
\*   if (distance < nearestDistance) { nearestDistance = distance;
\*                                     nearestIndex = index; } })
\* dists[i] is the distance of unvisited[i]; skip holds the skipped indices.
\* The result is <<nearestIndex, selected>>; selected is FALSE when no
\* element passed the comparison (nearestIndex then keeps its initial value).
RECURSIVE forEachNearest(_, _, _, _, _, _)
forEachNearest(dists, skip, index, nearestIndex, nearestDistance, selected) ==
  IF index > Len(dists) THEN <<nearestIndex, selected>>
  ELSE IF index \in skip
    THEN forEachNearest(dists, skip, index + 1, nearestIndex, nearestDistance, selected)
  ELSE IF dists[index] < nearestDistance
    THEN forEachNearest(dists, skip, index + 1, index, dists[index], TRUE)
    ELSE forEachNearest(dists, skip, index + 1, nearestIndex, nearestDistance, selected)

\* `distance <= nearestDistance`: the last of several nearest is kept.
ScanNearestLastOfTies(dists, skip) ==
  LET candidates == (1..Len(dists)) \ skip
  IN IF candidates = {} THEN <<1, FALSE>>
     ELSE <<CHOOSE i \in candidates :
              \A j \in candidates :
                dists[i] < dists[j] \/ (dists[i] = dists[j] /\ i >= j),
            TRUE>>

ScanNearest(dists, skip) == forEachNearest(dists, skip, 1, 1, Infinity, FALSE)

\* ------------------------------------------- server: /api/optimize (open)
RECURSIVE optimizeRouteLoop(_, _, _)
optimizeRouteLoop(unvisited, route, currentLocation) ==
  IF Len(unvisited) = 0 THEN route
  ELSE LET dists == [i \in 1..Len(unvisited) |->
                       calculateDistance(currentLocation, CoordOf(unvisited[i]))]
           nearestIndex == ScanNearest(dists, {})[1]
           nearestAppointment == unvisited[nearestIndex]
       IN optimizeRouteLoop(RemoveAt(unvisited, nearestIndex),
                            Append(route, nearestAppointment),
                            CoordOf(nearestAppointment))

optimizeRoute(appts, startLoc) ==
  IF Len(appts) <= 1 THEN appts
  ELSE optimizeRouteLoop(appts, <<>>,
         IF startLoc.isSet THEN startLoc.coordinates ELSE CoordOf(appts[1]))

\* Server calculateTotalDistance (open path).
calculateTotalDistance(route, startLoc) ==
  IF Len(route) <= 1 THEN 0
  ELSE (IF startLoc.isSet
          THEN calculateDistance(startLoc.coordinates, CoordOf(route[1])) ELSE 0)
       + SumSeq([i \in 1..(Len(route) - 1) |->
                   calculateDistance(CoordOf(route[i]), CoordOf(route[i + 1]))])

\* --------------------------------- server: /api/optimize-roundtrip builder
RECURSIVE serverOptimizeSingleRouteLoop(_, _, _, _)
serverOptimizeSingleRouteLoop(unvisited, route, currentLocation, targetEndAppointment) ==
  IF Len(unvisited) = 0 THEN route
  ELSE IF Len(unvisited) = 1 THEN Append(route, unvisited[1])
  ELSE LET dists == [i \in 1..Len(unvisited) |->
                       calculateDistance(currentLocation, CoordOf(unvisited[i]))]
           skip == {i \in 1..Len(unvisited) :
                      Len(unvisited) > 1 /\ unvisited[i].id = targetEndAppointment.id}
           nearestIndex == ScanNearest(dists, skip)[1]
           nearestAppointment == unvisited[nearestIndex]
       IN serverOptimizeSingleRouteLoop(RemoveAt(unvisited, nearestIndex),
                                        Append(route, nearestAppointment),
                                        CoordOf(nearestAppointment),
                                        targetEndAppointment)

serverOptimizeSingleRoute(appts, origin, targetEndIndex) ==
  serverOptimizeSingleRouteLoop(appts, <<>>, origin, appts[targetEndIndex])

serverCalculateRoundTripDistance(route, origin) ==
  IF Len(route) = 0 THEN 0
  ELSE calculateDistance(origin, CoordOf(route[1]))
       + SumSeq([i \in 1..(Len(route) - 1) |->
                   calculateDistance(CoordOf(route[i]), CoordOf(route[i + 1]))])
       + calculateDistance(CoordOf(route[Len(route)]), origin)

\* Mutant: the comparison reversed (totalDistance > bestTotalDistance).
RECURSIVE SelectBestReversed(_, _, _)
SelectBestReversed(cands, k, best) ==
  IF k > Len(cands) THEN best
  ELSE IF cands[k][2] > best[2]
    THEN SelectBestReversed(cands, k + 1, cands[k])
    ELSE SelectBestReversed(cands, k + 1, best)

\* Mutant: the loop over the ending appointments stops after the first.
SelectBestFirstOnly(cands, k, best) == cands[1]

\* for (endIndex ...) { if (totalDistance < bestTotalDistance) {...} }
\* cands[k] = <<candidate route, its total>>; best = <<bestRoute, bestTotal>>.
RECURSIVE SelectBest(_, _, _)
SelectBest(cands, k, best) ==
  IF k > Len(cands) THEN best
  ELSE IF cands[k][2] < best[2]
    THEN SelectBest(cands, k + 1, cands[k])
    ELSE SelectBest(cands, k + 1, best)

ServerCandidates(appts, origin) ==
  [endIndex \in 1..Len(appts) |->
     LET candidateRoute == serverOptimizeSingleRoute(appts, origin, endIndex)
     IN <<candidateRoute, serverCalculateRoundTripDistance(candidateRoute, origin)>>]

\* Returns [route, totalDistance].
optimizeRoundTripRoute(appts, startLoc) ==
  IF Len(appts) <= 1
    THEN [route |-> appts,
          totalDistance |->
            IF Len(appts) = 1 /\ startLoc.isSet
              THEN calculateDistance(startLoc.coordinates, CoordOf(appts[1]))
                   + calculateDistance(CoordOf(appts[1]), startLoc.coordinates)
              ELSE 0]
    ELSE LET origin == IF startLoc.isSet THEN startLoc.coordinates
                       ELSE CoordOf(appts[1])
             best == SelectBest(ServerCandidates(appts, origin), 1, <<(<<>>), Infinity>>)
         IN [route |-> best[1], totalDistance |-> best[2]]

\* ------------------------------------------------- the distance provider
\* What the Google Distance Matrix service answers for one pair: a road
\* grid (111 km per degree, no diagonals) in which driving p -> q costs a
\* 150 km detour when <<p, q>> is one of the `detours`, so that A -> B and
\* B -> A may differ.  Driving speed is 20 m/s.
ProviderMeters(p, q, detours) ==
  IF p = q THEN 0
  ELSE (Abs(q.lat - p.lat) + Abs(q.lng - p.lng)) * 111000
       + (IF <<p, q>> \in detours THEN 150000 ELSE 0)

ProviderSeconds(p, q, detours) == ProviderMeters(p, q, detours) \div 20

\* The JSON body of the provider for origins x destinations: top-level
\* status, and per cell a status with distance.value and duration.value.
\* `failing` holds the cells <<i, j>> the provider reports as unroutable.
GoogleData(origins, destinations, status, detours, failing) ==
  [status |-> status,
   rows |-> [i \in 1..Len(origins) |->
     [j \in 1..Len(destinations) |->
        IF <<i, j>> \in failing
          THEN [status |-> "ZERO_RESULTS", distance |-> 0, duration |-> 0]
          ELSE [status |-> "OK",
                distance |-> ProviderMeters(origins[i], destinations[j], detours),
                duration |-> ProviderSeconds(origins[i], destinations[j], detours)]]]]

\* element.distance.value * 0.000621371, in micro-miles.
MetersToMiles(meters) ==
  (meters \div 1000) * MicroMilesPerKm + ((meters % 1000) * MicroMilesPerKm) \div 1000

HaversineMatrix(origins, destinations) ==
  [i \in 1..Len(origins) |->
    [j \in 1..Len(destinations) |->
       calculateHaversineDistance(origins[i], destinations[j])]]

\* Every cell taken from the provider, whatever its status.
MatrixCellUnpatched(element, origin, dest) == MetersToMiles(element.distance)

\* if (element.status === 'OK') value * 0.000621371 else haversine
MatrixCell(element, origin, dest) ==
  IF element.status = "OK"
    THEN MetersToMiles(element.distance)
    ELSE calculateHaversineDistance(origin, dest)

\* POST /api/distance-matrix.  session: whether the request is authenticated;
\* apiKey: whether GOOGLE_MAPS_API_KEY is set; google: [threw |-> TRUE] when
\* fetch or response.json() throws, else [threw |-> FALSE, data |-> body].
distanceMatrixPOST(session, origins, destinations, apiKey, google) ==
  IF ~session THEN [status |-> 401, distanceMatrix |-> <<>>]
  ELSE IF Len(origins) = 0 \/ Len(destinations) = 0
    THEN [status |-> 400, distanceMatrix |-> <<>>]
  ELSE IF ~apiKey
    THEN [status |-> 200, distanceMatrix |-> HaversineMatrix(origins, destinations)]
  ELSE IF ~google.threw /\ google.data.status = "OK"
    THEN [status |-> 200,
          distanceMatrix |->
            [i \in 1..Len(origins) |->
              [j \in 1..Len(destinations) |->
                 MatrixCell(google.data.rows[i][j], origins[i], destinations[j])]]]
  ELSE [status |-> 200, distanceMatrix |-> HaversineMatrix(origins, destinations)]

\* Client calculateDistanceMatrix.  http: [failed |-> TRUE] when fetch
\* rejects (network error), else [failed |-> FALSE, response |-> ...].
calculateDistanceMatrix(origins, destinations, http) ==
  IF Len(origins) = 0 \/ Len(destinations) = 0 THEN <<>>
  ELSE IF ~http.failed /\ http.response.status = 200
    THEN http.response.distanceMatrix
    ELSE HaversineMatrix(origins, destinations)

\* ------------------------------------ client: open path (earlier page)
\* indexOf: 1-based position of the element, 0 when absent (-1 in the source).
IndexOf(seq, x) ==
  IF \E i \in 1..Len(seq) : seq[i] = x
    THEN CHOOSE i \in 1..Len(seq) : seq[i] = x /\ \A j \in 1..(i - 1) : seq[j] # x
    ELSE 0

\* findIndex(apt => apt.id === id), same convention.
FindIndexById(seq, id) ==
  IF \E i \in 1..Len(seq) : seq[i].id = id
    THEN CHOOSE i \in 1..Len(seq) : seq[i].id = id /\ \A j \in 1..(i - 1) : seq[j].id # id
    ELSE 0

RECURSIVE openPathLoop(_, _, _, _, _, _)
openPathLoop(appts, hasStart, distanceMatrix, unvisited, route, currentIndex) ==
  IF Len(unvisited) = 0 THEN route
  ELSE LET MatIndex(a) == IF hasStart THEN IndexOf(appts, a) + 1 ELSE IndexOf(appts, a)
           dists == [i \in 1..Len(unvisited) |->
                       distanceMatrix[currentIndex][MatIndex(unvisited[i])]]
           nearestIndex == ScanNearest(dists, {})[1]
           nearestAppointment == unvisited[nearestIndex]
       IN openPathLoop(appts, hasStart, distanceMatrix,
                       RemoveAt(unvisited, nearestIndex),
                       Append(route, nearestAppointment),
                       MatIndex(nearestAppointment))

OpenAllCoords(appts, startLoc) ==
  LET coords == [i \in 1..Len(appts) |-> CoordOf(appts[i])]
  IN IF startLoc.isSet THEN <<startLoc.coordinates>> \o coords ELSE coords

\* currentIndex starting at 1 instead of 0: the second coordinate.
openPathOptimizeRouteWithDrivingFromSecond(appts, startLoc, distanceMatrix) ==
  IF Len(appts) <= 1 THEN appts
  ELSE openPathLoop(appts, startLoc.isSet, distanceMatrix, appts, <<>>, 2)

\* optimizeRouteWithDriving of the open-path page; distanceMatrix is the
\* result of calculateDistanceMatrix(allCoords, allCoords).
openPathOptimizeRouteWithDriving(appts, startLoc, distanceMatrix) ==
  IF Len(appts) <= 1 THEN appts
  ELSE openPathLoop(appts, startLoc.isSet, distanceMatrix, appts, <<>>, 1)

\* ------------------------------------ client: round trip (current page)
RECURSIVE optimizeSingleRouteLoop(_, _, _, _, _, _)
optimizeSingleRouteLoop(appts, distanceMatrix, unvisited, route, currentIndex, targetEndAppointment) ==
  IF Len(unvisited) <= 1
    THEN IF Len(unvisited) = 1 THEN Append(route, unvisited[1]) ELSE route
  ELSE LET targetInRemaining == FindIndexById(unvisited, targetEndAppointment.id)
           forced == Len(unvisited) = 2 /\ targetInRemaining # 0
           otherIndex == IF targetInRemaining = 1 THEN 2 ELSE 1
           dists == [i \in 1..Len(unvisited) |->
                       distanceMatrix[currentIndex][IndexOf(appts, unvisited[i]) + 1]]
           skip == {i \in 1..Len(unvisited) :
                      Len(unvisited) > 1 /\ unvisited[i].id = targetEndAppointment.id}
           scan == ScanNearest(dists, skip)
           nearestIndex == IF forced THEN otherIndex
                           ELSE IF scan[2] THEN scan[1]
                           ELSE 1
           nearestAppointment == unvisited[nearestIndex]
       IN optimizeSingleRouteLoop(appts, distanceMatrix,
                                  RemoveAt(unvisited, nearestIndex),
                                  Append(route, nearestAppointment),
                                  IndexOf(appts, nearestAppointment) + 1,
                                  targetEndAppointment)

\* No stop is held back: the target is compared like every other stop.
optimizeSingleRouteUnforced(appts, distanceMatrix, originIndex, targetEndIndex) ==
  optimizeSingleRouteLoop(appts, distanceMatrix, appts, <<>>, originIndex, [id |-> -1])

optimizeSingleRoute(appts, distanceMatrix, originIndex, targetEndIndex) ==
  optimizeSingleRouteLoop(appts, distanceMatrix, appts, <<>>, originIndex,
                          appts[targetEndIndex])

\* stateAppts is the component's `appointments` the callback closes over.
calculateRoundTripDistance(route, distanceMatrix, hasStartLocation, stateAppts) ==
  IF Len(route) = 0 THEN 0
  ELSE LET originIndex == 1
           Idx(a) == FindIndexById(stateAppts, a.id) + 1
       IN (IF hasStartLocation THEN distanceMatrix[originIndex][Idx(route[1])] ELSE 0)
          + SumSeq([i \in 1..(Len(route) - 1) |->
                      distanceMatrix[Idx(route[i])][Idx(route[i + 1])]])
          + distanceMatrix[Idx(route[Len(route)])][originIndex]

AllCoords(appts, startLoc) ==
  LET coords == [i \in 1..Len(appts) |-> CoordOf(appts[i])]
      origin == IF startLoc.isSet THEN startLoc.coordinates ELSE coords[1]
  IN <<origin>> \o coords

ClientCandidates(appts, startLoc, distanceMatrix, stateAppts) ==
  [potentialEndIndex \in 1..Len(appts) |->
     LET routeCandidate == optimizeSingleRoute(appts, distanceMatrix, 1, potentialEndIndex)
     IN <<routeCandidate,
          calculateRoundTripDistance(routeCandidate, distanceMatrix,
                                     startLoc.isSet, stateAppts)>>]

\* <<bestRoute, bestTotalDistance>> after the loop over potentialEndIndex.
BestRoundTrip(appts, startLoc, distanceMatrix, stateAppts) ==
  SelectBest(ClientCandidates(appts, startLoc, distanceMatrix, stateAppts),
             1, <<(<<>>), Infinity>>)

\* optimizeRouteWithDriving of the round-trip page: returns bestRoute.
optimizeRouteWithDriving(appts, startLoc, distanceMatrix, stateAppts) ==
  IF Len(appts) <= 1 THEN appts
  ELSE BestRoundTrip(appts, startLoc, distanceMatrix, stateAppts)[1]

\* ------------------------------------------------ POST /api/distance
\* A duration in minutes is the fraction num / den: seconds / 60 from the
\* provider, distance * 3 (micro-miles * 3 / 1000000) from the fallback.
HaversineAnswer(origin, destination) ==
  LET distance == calculateHaversineDistance(origin, destination)
  IN [status |-> 200, distance |-> distance,
      duration |-> [num |-> distance * 3, den |-> 1000000]]

\* session, apiKey and google as for distanceMatrixPOST.  `!origin.lat` is
\* true of a latitude of 0.
distancePOST(session, origin, destination, apiKey, google) ==
  IF ~session THEN [status |-> 401, distance |-> 0, duration |-> [num |-> 0, den |-> 1]]
  ELSE IF origin.lat = 0 \/ origin.lng = 0 \/ destination.lat = 0 \/ destination.lng = 0
    THEN [status |-> 400, distance |-> 0, duration |-> [num |-> 0, den |-> 1]]
  ELSE IF ~apiKey THEN HaversineAnswer(origin, destination)
  ELSE IF /\ ~google.threw
          /\ google.data.status = "OK"
          /\ google.data.rows[1][1].status = "OK"
    THEN [status |-> 200,
          distance |-> MetersToMiles(google.data.rows[1][1].distance),
          duration |-> [num |-> google.data.rows[1][1].duration, den |-> 60]]
  ELSE HaversineAnswer(origin, destination)

\* Client calculateDrivingDistance; http as for calculateDistanceMatrix.
calculateDrivingDistance(origin, destination, http) ==
  IF ~http.failed /\ http.response.status = 200
    THEN [distance |-> http.response.distance, duration |-> http.response.duration]
    ELSE LET distance == calculateHaversineDistance(origin, destination)
         IN [distance |-> distance, duration |-> [num |-> distance * 3, den |-> 1000000]]

\* Math.ceil(duration)
CeilDuration(duration) == CeilDiv(duration.num, duration.den)

\* ------------------------------------------------------- clock values
\* new Date(`2024-01-01 ${startTime}`), in minutes since 00:00 of that day.
ParseStartTime(st) == st.hh * 60 + st.mm

\* returnTime: null
NoTime == [hour |-> 0, minute |-> 0, period |-> "null"]

\* toLocaleTimeString('en-US', { hour: '2-digit', minute: '2-digit' }):
\* "hh:mm AM" / "hh:mm PM", the day is not part of the value.
FormatTime(instant) ==
  LET ofDay == instant % 1440
      h24 == ofDay \div 60
  IN [hour |-> IF h24 % 12 = 0 THEN 12 ELSE h24 % 12,
      minute |-> ofDay % 60,
      period |-> IF h24 < 12 THEN "AM" ELSE "PM"]

\* Math.ceil(distance * travelTimePerMile), distance in micro-miles.
TravelMinutes(distance, travelTimePerMile) == CeilDiv(distance * travelTimePerMile, 1000000)

\* route.forEach: travel[index] minutes are added before the arrival at
\* route[index] is recorded, the appointment's duration after it.  The
\* result is <<arrival instants, currentTime after the last stop>>.
RECURSIVE walkRoute(_, _, _, _, _)
walkRoute(route, travel, index, currentTime, instants) ==
  IF index > Len(route) THEN <<instants, currentTime>>
  ELSE LET arrival == currentTime + travel[index]
       IN walkRoute(route, travel, index + 1, arrival + route[index].duration,
                    Append(instants, arrival))

\* ----------------------- server: generateAppointmentTimes (round trip)
\* Returns [instants, times, returnTime].
generateAppointmentTimesRoundTrip(route, st, travelTimePerMile, origin) ==
  LET travel == [index \in 1..Len(route) |->
                   IF index > 1
                     THEN TravelMinutes(calculateDistance(CoordOf(route[index - 1]),
                                                          CoordOf(route[index])),
                                        travelTimePerMile)
                   ELSE IF origin.isSet
                     THEN TravelMinutes(calculateDistance(origin.coordinates,
                                                          CoordOf(route[index])),
                                        travelTimePerMile)
                   ELSE 0]
      walked == walkRoute(route, travel, 1, ParseStartTime(st), <<>>)
      returnTravelMinutes ==
        TravelMinutes(calculateDistance(CoordOf(route[Len(route)]), origin.coordinates),
                      travelTimePerMile)
  IN [instants |-> walked[1],
      times |-> [i \in 1..Len(route) |-> FormatTime(walked[1][i])],
      returnTime |-> IF origin.isSet /\ Len(route) > 0
                       THEN FormatTime(walked[2] + returnTravelMinutes)
                       ELSE NoTime]

\* ------------------------- server: generateAppointmentTimes (open path)
generateAppointmentTimes(route, st, travelTimePerMile) ==
  LET travel == [index \in 1..Len(route) |->
                   IF index > 1
                     THEN TravelMinutes(calculateDistance(CoordOf(route[index - 1]),
                                                          CoordOf(route[index])),
                                        travelTimePerMile)
                     ELSE 0]
      walked == walkRoute(route, travel, 1, ParseStartTime(st), <<>>)
  IN [instants |-> walked[1],
      times |-> [i \in 1..Len(route) |-> FormatTime(walked[1][i])],
      returnTime |-> NoTime]

\* --------------------- client: the schedule part of optimizeAppointments
\* drive[<<p, q>>] is what calculateDrivingDistance(p, q) resolves to.
\* Returns [instants, times, returnTime] for the appointments; the page
\* puts the pseudo-stop of the starting location in front of them.
clientSchedule(route, startLoc, st, drive) ==
  LET travel == [i \in 1..Len(route) |->
                   IF i = 1 /\ startLoc.isSet
                     THEN CeilDuration(drive[<<startLoc.coordinates,
                                              CoordOf(route[i])>>].duration)
                   ELSE IF i > 1
                     THEN CeilDuration(drive[<<CoordOf(route[i - 1]),
                                              CoordOf(route[i])>>].duration)
                   ELSE 0]
      walked == walkRoute(route, travel, 1, ParseStartTime(st), <<>>)
      returnDuration ==
        drive[<<CoordOf(route[Len(route)]),
                startLoc.coordinates>>].duration
      estimatedReturnTime ==
        IF Len(route) > 0 /\ startLoc.isSet
          THEN walked[2] + CeilDuration(returnDuration)
          ELSE walked[2]
  IN [instants |-> walked[1],
      times |-> [i \in 1..Len(route) |-> FormatTime(walked[1][i])],
      returnTime |-> IF startLoc.isSet THEN FormatTime(estimatedReturnTime) ELSE NoTime]

\* What calculateDrivingDistance resolves to for every pair in the state's
\* world: the request is authenticated and the API key is configured.
DriveTable ==
  [pq \in (Coords \cup {NoLocation.coordinates}) \X (Coords \cup {NoLocation.coordinates}) |->
     calculateDrivingDistance(pq[1], pq[2],
       [failed |-> FALSE,
        response |-> distancePOST(TRUE, pq[1], pq[2], TRUE,
                       [threw |-> FALSE,
                        data |-> GoogleData(<<pq[1]>>, <<pq[2]>>, googleStatus, oneWay, {})])])]

\* [startingLocation.coordinates, ...optimizedAppointments coordinates]
RouteCoords(route, startLoc) ==
  (IF startLoc.isSet THEN <<startLoc.coordinates>> ELSE <<>>)
    \o [i \in 1..Len(route) |-> CoordOf(route[i])]

\* totalDrivingDistance of the open-path page's optimizeAppointments: the
\* measured legs origin -> first stop (when an origin is set) and between
\* consecutive stops, no return leg.
totalDrivingDistance(route, startLoc, drive) ==
  IF Len(route) > 0
    THEN LET routeCoords == RouteCoords(route, startLoc)
         IN SumSeq([i \in 1..(Len(routeCoords) - 1) |->
                      drive[<<routeCoords[i], routeCoords[i + 1]>>].distance])
    ELSE 0

\* ================================================================ inputs
\* Sequences of 1..MaxStops pairwise different addresses.
AddressLists ==
  {q \in UNION {[1..n -> Coords] : n \in 1..MaxStops} :
     \A i, j \in 1..Len(q) : i # j => q[i] # q[j]}

\* Appointment rows as prisma returns them; ids are unique.
MkAppointments(addresses, durations) ==
  [i \in 1..Len(addresses) |->
     [id |-> 10 * i, latitude |-> addresses[i].lat, longitude |-> addresses[i].lng,
      duration |-> durations[i]]]

\* The provider's road networks: at most one one-way detour, between two
\* addresses of the same latitude.
OneWayStreets == {pq \in Coords \X Coords : pq[1] # pq[2] /\ pq[1].lat = pq[2].lat}

RoadNetworks == {{}} \cup {{pq} : pq \in OneWayStreets}

StartingLocations ==
  {NoLocation} \cup {[isSet |-> TRUE, coordinates |-> c] : c \in Coords}

\* "HH:MM" values of the start-time input.
StartTimes == {[hh |-> 9, mm |-> 0], [hh |-> 22, mm |-> 0]}

\* No builder has run.
RouteIdle ==
  /\ builder = "none"
  /\ usedMatrix = <<>>
  /\ optimizedRoute = <<>>
  /\ totalDistance = 0

\* No generator has run.
SchedIdle ==
  /\ generator = "none"
  /\ suggestedTimes = <<>>
  /\ arrivalInstants = <<>>
  /\ returnTime = NoTime

\* optimizeAppointments is not running.
ClientIdle ==
  /\ pc = "idle"
  /\ isOptimizing = FALSE
  /\ matrixOutcome = "none"
  /\ optimizedAppointments = <<>>
  /\ measuredLegs = <<>>
  /\ renderedAppointments = <<>>

\* No request to /api/distance-matrix on its own.
NoResponse == [status |-> 0, distanceMatrix |-> <<>>]

MatrixIdle ==
  /\ reqOrigins = <<>>
  /\ reqDestinations = <<>>
  /\ failingCells = {}
  /\ matrixResponse = NoResponse

\* An optimize request that has not arrived.
IdleCall ==
  [pc |-> "idle", endpoint |-> "", session |-> "", userId |-> "",
   startTime |-> [hh |-> 9, mm |-> 0], startingLocation |-> NoLocation,
   before |-> <<>>, route |-> <<>>, times |-> <<>>, totalDistance |-> 0,
   pending |-> {}, rejected |-> FALSE, writes |-> 0, status |-> 0, body |-> <<>>]

\* The two concurrent optimize requests.
Calls == {1, 2}

\* No server request, an empty table.
ServerIdle ==
  /\ db = <<>>
  /\ calls = [c \in Calls |-> IdleCall]
  /\ deletes = 0

NoRequest == [endpoint |-> "none"]

ApiIdle ==
  /\ apiRequest = NoRequest
  /\ apiResponse = [status |-> 0]

\* =========================================== specification: route builders
InitRoute ==
  /\ appointments \in {MkAppointments(q, [i \in 1..Len(q) |-> 60]) : q \in AddressLists}
  /\ startingLocation \in StartingLocations
  /\ googleStatus \in {"OK", "OVER_QUERY_LIMIT"}
  /\ oneWay \in RoadNetworks
  /\ (googleStatus # "OK" => oneWay = {})
  /\ startTime = [hh |-> 9, mm |-> 0]
  /\ RouteIdle
  /\ SchedIdle
  /\ ClientIdle
  /\ MatrixIdle
  /\ ServerIdle
  /\ ApiIdle

\* The matrix the client obtains for `all` x `all` in the state's world:
\* the request is authenticated and the API key is configured.
FetchedMatrix(all) ==
  calculateDistanceMatrix(all, all,
    [failed |-> FALSE,
     response |-> distanceMatrixPOST(TRUE, all, all, TRUE,
                    [threw |-> FALSE,
                     data |-> GoogleData(all, all, googleStatus, oneWay, {})])])

RunOptimizeRoute ==
  /\ builder = "none"
  /\ builder' = "optimizeRoute"
  /\ optimizedRoute' = optimizeRoute(appointments, startingLocation)
  /\ totalDistance' = calculateTotalDistance(optimizedRoute', startingLocation)
  /\ usedMatrix' = <<>>
  /\ UNCHANGED <<inputVars, schedVars, clientVars, matrixVars, serverVars, apiVars>>

RunOptimizeRoundTripRoute ==
  /\ builder = "none"
  /\ builder' = "optimizeRoundTripRoute"
  /\ LET r == optimizeRoundTripRoute(appointments, startingLocation)
     IN optimizedRoute' = r.route /\ totalDistance' = r.totalDistance
  /\ usedMatrix' = <<>>
  /\ UNCHANGED <<inputVars, schedVars, clientVars, matrixVars, serverVars, apiVars>>

RunOpenPathClient ==
  /\ builder = "none"
  /\ builder' = "openPathClient"
  /\ usedMatrix' = IF Len(appointments) <= 1 THEN <<>>
                       ELSE FetchedMatrix(OpenAllCoords(appointments, startingLocation))
  /\ optimizedRoute' = openPathOptimizeRouteWithDriving(appointments, startingLocation, usedMatrix')
  /\ totalDistance' = totalDrivingDistance(optimizedRoute', startingLocation, DriveTable)
  /\ UNCHANGED <<inputVars, schedVars, clientVars, matrixVars, serverVars, apiVars>>

\* totalDistance records bestTotalDistance, which the client only logs.
RunRoundTripClient ==
  /\ builder = "none"
  /\ builder' = "roundTripClient"
  /\ usedMatrix' = IF Len(appointments) <= 1 THEN <<>>
                       ELSE FetchedMatrix(AllCoords(appointments, startingLocation))
  /\ optimizedRoute' = optimizeRouteWithDriving(appointments, startingLocation,
                                       usedMatrix', appointments)
  /\ totalDistance' =
       IF Len(appointments) <= 1 THEN 0
       ELSE BestRoundTrip(appointments, startingLocation, usedMatrix', appointments)[2]
  /\ UNCHANGED <<inputVars, schedVars, clientVars, matrixVars, serverVars, apiVars>>

NextRoute ==
  \/ RunOptimizeRoute
  \/ RunOptimizeRoundTripRoute
  \/ RunOpenPathClient
  \/ RunRoundTripClient

SpecRoute == InitRoute /\ [][NextRoute]_vars

\* ============================================== properties: route builders
\* r holds every element of a exactly once and nothing else.
IsPermutation(r, a) ==
  /\ Len(r) = Len(a)
  /\ \A i \in 1..Len(a) : Cardinality({j \in 1..Len(r) : r[j].id = a[i].id}) = 1
  /\ \A j \in 1..Len(r) : r[j] \in Range(a)

OpenPathBuilders == {"optimizeRoute", "openPathClient"}
RoundTripBuilders == {"optimizeRoundTripRoute", "roundTripClient"}

\* The distances the builder that ran measured with, indexed like the
\* client's matrix: 1 is the origin (the first stop when none is set),
\* k + 1 is appointments[k].
BuilderMatrix ==
  IF builder = "roundTripClient" THEN usedMatrix
  ELSE LET all == AllCoords(appointments, startingLocation)
       IN [i \in 1..Len(all) |-> [j \in 1..Len(all) |-> calculateDistance(all[i], all[j])]]

\* origin -> r[1] -> ... -> r[n] -> origin, measured in M.
TourLength(M, r) ==
  LET Idx(a) == FindIndexById(appointments, a.id) + 1
  IN M[1][Idx(r[1])]
     + SumSeq([i \in 1..(Len(r) - 1) |-> M[Idx(r[i])][Idx(r[i + 1])]])
     + M[Idx(r[Len(r)])][1]

\* The forced-final candidates of the builder that ran.
BuilderCandidates ==
  IF builder = "roundTripClient"
    THEN [k \in 1..Len(appointments) |->
            optimizeSingleRoute(appointments, usedMatrix, 1, k)]
    ELSE [k \in 1..Len(appointments) |->
            serverOptimizeSingleRoute(appointments,
              AllCoords(appointments, startingLocation)[1], k)]

\* C1: the open-path builders (server optimizeRoute, client open-path
\* optimizeRouteWithDriving) return a permutation of their input, with or
\* without an origin.
C1_OpenPathPermutation ==
  builder \in OpenPathBuilders => IsPermutation(optimizedRoute, appointments)

C1_Witness ==
  /\ builder = "openPathClient"
  /\ Len(appointments) = 3
  /\ startingLocation.isSet
  /\ optimizedRoute # appointments
  /\ IsPermutation(optimizedRoute, appointments)

\* C2: with an origin set, the round-trip builders return a route of the
\* input's length holding every input stop exactly once; it is never empty.
C2_RoundTripPermutation ==
  (builder \in RoundTripBuilders /\ startingLocation.isSet)
    => /\ optimizedRoute # <<>>
       /\ IsPermutation(optimizedRoute, appointments)

C2_Witness ==
  /\ builder = "roundTripClient"
  /\ startingLocation.isSet
  /\ Len(appointments) = 3
  /\ optimizedRoute # appointments
  /\ IsPermutation(optimizedRoute, appointments)

\* C3: the round-trip builder returns a forced-final candidate whose full
\* round-trip distance (origin -> first + consecutive legs + last -> origin)
\* is minimal among the candidates, and the total it computed is that
\* distance.
C3_MinimalCandidate ==
  (builder \in RoundTripBuilders /\ Len(appointments) >= 2)
    => /\ \E k \in 1..Len(appointments) : optimizedRoute = BuilderCandidates[k]
       /\ \A k \in 1..Len(appointments) :
            TourLength(BuilderMatrix, optimizedRoute)
              <= TourLength(BuilderMatrix, BuilderCandidates[k])
       /\ totalDistance = TourLength(BuilderMatrix, optimizedRoute)

\* ------------------------------- specification: tours of up to four stops
\* Both round-trip optimizers on the same stops, the same origin setting and
\* the same distances: the provider refuses, so the client's matrix holds the
\* haversine distances the server computes itself.  Four stops are the fewest
\* for which two round trips through the same stops differ in length.
MaxTourStops == 4

TourCoords == Coords \cup {Coord(0, 2)}

TourLists ==
  {q \in UNION {[1..n -> TourCoords] : n \in 1..MaxTourStops} :
     \A i, j \in 1..Len(q) : i # j => q[i] # q[j]}

InitTours ==
  /\ appointments \in {MkAppointments(q, [i \in 1..Len(q) |-> 60]) : q \in TourLists}
  /\ startingLocation \in StartingLocations
  /\ googleStatus = "OVER_QUERY_LIMIT"
  /\ oneWay = {}
  /\ startTime = [hh |-> 9, mm |-> 0]
  /\ RouteIdle
  /\ SchedIdle
  /\ ClientIdle
  /\ MatrixIdle
  /\ ServerIdle
  /\ ApiIdle

NextTours ==
  \/ RunOptimizeRoundTripRoute
  \/ RunRoundTripClient

SpecTours == InitTours /\ [][NextTours]_vars

\* The route the client round-trip optimizer selects for the state's stops
\* and origin when its matrix holds the server's distances.
ClientRouteOnServerDistances ==
  optimizeRouteWithDriving(appointments, startingLocation, BuilderMatrix, appointments)

\* C25: for the same stops, the same origin setting and the same distances,
\* the server round-trip optimizer selects the route the client round-trip
\* optimizer selects, with an origin set and with the first stop standing in.
C25_ServerSelectsClientRoute ==
  builder = "optimizeRoundTripRoute" => optimizedRoute = ClientRouteOnServerDistances

\* The same with an origin set only.
SameRouteWithOrigin ==
  (builder = "optimizeRoundTripRoute" /\ startingLocation.isSet)
    => optimizedRoute = ClientRouteOnServerDistances

\* With or without an origin the two build the same forced-final candidates;
\* it is the length they give a candidate that differs.
SameCandidates ==
  builder = "optimizeRoundTripRoute"
    => \A k \in 1..Len(appointments) :
         BuilderCandidates[k] = optimizeSingleRoute(appointments, BuilderMatrix, 1, k)

\* C4 as stated: for three stops and an origin, the optimizer's round trip
\* is no longer than the round trip of the input order, in the same matrix.
C4_NoWorseThanInputOrder ==
  (builder \in RoundTripBuilders /\ startingLocation.isSet /\ Len(appointments) = 3)
    => TourLength(BuilderMatrix, optimizedRoute)
         <= TourLength(BuilderMatrix, appointments)

\* C4 amended: it holds whenever the first input stop is no farther from the
\* origin than the second, which makes the input order the candidate whose
\* forced-final stop is the third.
C4_NoWorseWhenFirstIsNearer ==
  (/\ builder \in RoundTripBuilders
   /\ startingLocation.isSet
   /\ Len(appointments) = 3
   /\ BuilderMatrix[1][2] <= BuilderMatrix[1][3])
    => TourLength(BuilderMatrix, optimizedRoute)
         <= TourLength(BuilderMatrix, appointments)

C4_Witness ==
  /\ builder = "roundTripClient"
  /\ startingLocation.isSet
  /\ Len(appointments) = 3
  /\ BuilderMatrix[1][2] <= BuilderMatrix[1][3]
  /\ TourLength(BuilderMatrix, optimizedRoute) < TourLength(BuilderMatrix, appointments)

\* The distances the open-path builder that ran measured with, indexed like
\* the open-path page's matrix: with an origin set 1 is the origin and k + 1
\* is appointments[k]; without one k is appointments[k].
OpenPathMatrix ==
  IF builder = "openPathClient" THEN usedMatrix
  ELSE LET all == OpenAllCoords(appointments, startingLocation)
       IN [i \in 1..Len(all) |-> [j \in 1..Len(all) |-> calculateDistance(all[i], all[j])]]

\* The row resp. column of an appointment in OpenPathMatrix.
OpenPathIndex(a) ==
  FindIndexById(appointments, a.id) + (IF startingLocation.isSet THEN 1 ELSE 0)

\* The position the k-th stop of the route is chosen from: the origin (the
\* first input stop when none is set), then the stop appended before.
PositionBefore(k) == IF k = 1 THEN 1 ELSE OpenPathIndex(optimizedRoute[k - 1])

\* The stops still unvisited when the k-th stop of the route is chosen.
UnvisitedBefore(k) ==
  {a \in Range(appointments) : \A j \in 1..(k - 1) : optimizedRoute[j].id # a.id}

\* C18: every stop of an open-path route was, when it was appended, an
\* unvisited stop at minimal distance from the current position, and the
\* first in input order of the unvisited stops at that distance.
C18_NearestFirstInInputOrder ==
  (builder \in OpenPathBuilders /\ Len(appointments) >= 2)
    => \A k \in 1..Len(optimizedRoute) :
         /\ optimizedRoute[k] \in UnvisitedBefore(k)
         /\ \A a \in UnvisitedBefore(k) :
              LET chosen == OpenPathMatrix[PositionBefore(k)][OpenPathIndex(optimizedRoute[k])]
                  other == OpenPathMatrix[PositionBefore(k)][OpenPathIndex(a)]
              IN \/ chosen < other
                 \/ /\ chosen = other
                    /\ OpenPathIndex(optimizedRoute[k]) <= OpenPathIndex(a)

\* A step at which two unvisited stops were equally near and the earlier in
\* input order was appended.
C18_Witness ==
  /\ builder \in OpenPathBuilders
  /\ Len(appointments) = 3
  /\ \E k \in 1..2 :
       \E a \in UnvisitedBefore(k) :
         /\ a.id # optimizedRoute[k].id
         /\ OpenPathMatrix[PositionBefore(k)][OpenPathIndex(a)]
              = OpenPathMatrix[PositionBefore(k)][OpenPathIndex(optimizedRoute[k])]
         /\ OpenPathIndex(optimizedRoute[k]) < OpenPathIndex(a)

\* C20: without an origin the open-path route starts with the first stop in
\* input order, which is out of the pool from then on, whether the distances
\* are haversine or a provider matrix.
C20_OpenPathStartsAtFirstStop ==
  (builder \in OpenPathBuilders /\ ~startingLocation.isSet)
    => /\ optimizedRoute[1] = appointments[1]
       /\ \A k \in 2..Len(optimizedRoute) : optimizedRoute[k].id # appointments[1].id

\* A route built without an origin from a provider matrix, in which the
\* stops after the first were reordered.
C20_Witness ==
  /\ builder = "openPathClient"
  /\ googleStatus = "OK"
  /\ ~startingLocation.isSet
  /\ Len(appointments) = 3
  /\ optimizedRoute # appointments
  /\ optimizedRoute[1] = appointments[1]

\* d(p, q) of the open-path optimizer that ran: haversine on the server,
\* the measured driving distance on the page.
OpenPathDistance(p, q) ==
  IF builder = "openPathClient"
    THEN DriveTable[<<p, q>>].distance
    ELSE calculateDistance(p, q)

\* d(origin, first stop) when an origin is set, plus the distances between
\* consecutive stops of r; no return leg.
OpenPathLength(r) ==
  (IF startingLocation.isSet
     THEN OpenPathDistance(startingLocation.coordinates, CoordOf(r[1]))
     ELSE 0)
    + SumSeq([i \in 1..(Len(r) - 1) |->
                OpenPathDistance(CoordOf(r[i]), CoordOf(r[i + 1]))])

\* C23: the total an open-path optimizer reports is d(origin, first stop)
\* when an origin is set plus the distances between consecutive stops, for
\* every non-empty route, a single stop included.
C23_OpenPathTotalNoReturn ==
  builder \in OpenPathBuilders => totalDistance = OpenPathLength(optimizedRoute)

\* What holds: the total is that sum for two or more stops, and on the page
\* for a single stop too.
OpenPathTotalFromTwoStops ==
  (builder \in OpenPathBuilders
     /\ (Len(appointments) >= 2 \/ builder = "openPathClient"))
    => totalDistance = OpenPathLength(optimizedRoute)

\* The server reports 0 for a route of a single stop, origin or not.
ServerSingleStopTotalIsZero ==
  (builder = "optimizeRoute" /\ Len(appointments) = 1) => totalDistance = 0

\* The row resp. column of an appointment in BuilderMatrix.
BuilderIndex(a) == FindIndexById(appointments, a.id) + 1

\* c is built for the forced-final stop f as C19 states: f comes last, and
\* every earlier stop was, among the unvisited stops other than f, at minimal
\* distance from the position before it.
ForcedFinalNearest(c, f) ==
  /\ IsPermutation(c, appointments)
  /\ c[Len(c)] = f
  /\ \A k \in 1..(Len(c) - 1) :
       /\ c[k].id # f.id
       /\ \A a \in Range(appointments) :
            (a.id # f.id /\ \A j \in 1..(k - 1) : c[j].id # a.id)
              => LET position == IF k = 1 THEN 1 ELSE BuilderIndex(c[k - 1])
                 IN BuilderMatrix[position][BuilderIndex(c[k])]
                      <= BuilderMatrix[position][BuilderIndex(a)]

\* C19: every candidate a round-trip builder builds from two or more stops
\* for a forced-final stop f ends with f, f is not selected before, and each
\* earlier stop is the nearest unvisited stop other than f at its step.
C19_ForcedFinalIsLast ==
  (builder \in RoundTripBuilders /\ Len(appointments) >= 2)
    => \A f \in 1..Len(appointments) :
         ForcedFinalNearest(BuilderCandidates[f], appointments[f])

\* A candidate whose forced-final stop was strictly the nearest at the first
\* step and was held back.
C19_Witness ==
  /\ builder = "roundTripClient"
  /\ Len(appointments) = 3
  /\ \E f \in 1..3 :
       /\ BuilderMatrix[1][BuilderIndex(appointments[f])]
            < BuilderMatrix[1][BuilderIndex(BuilderCandidates[f][1])]
       /\ BuilderCandidates[f][3] = appointments[f]

\* ======================================= specification: schedule generators
\* Every assignment of a duration to each stop of an address list.
Routes ==
  UNION {{MkAppointments(q, d) : d \in [1..Len(q) -> Durations]} : q \in AddressLists}

InitSchedule ==
  /\ appointments \in Routes
  /\ startingLocation \in StartingLocations
  /\ startTime \in StartTimes
  /\ googleStatus \in {"OK", "OVER_QUERY_LIMIT"}
  /\ oneWay \in RoadNetworks
  /\ (googleStatus # "OK" => oneWay = {})
  /\ RouteIdle
  /\ SchedIdle
  /\ ClientIdle
  /\ MatrixIdle
  /\ ServerIdle
  /\ ApiIdle

\* POST /api/optimize
RunGenerateAppointmentTimes ==
  /\ generator = "none"
  /\ generator' = "generateAppointmentTimes"
  /\ LET schedule == generateAppointmentTimes(appointments, startTime, MinutesPerMile)
     IN /\ suggestedTimes' = schedule.times
        /\ arrivalInstants' = schedule.instants
        /\ returnTime' = schedule.returnTime
  /\ UNCHANGED <<inputVars, routeVars, clientVars, matrixVars, serverVars, apiVars>>

\* POST /api/optimize-roundtrip
RunGenerateAppointmentTimesRoundTrip ==
  /\ generator = "none"
  /\ generator' = "generateAppointmentTimesRoundTrip"
  /\ LET schedule == generateAppointmentTimesRoundTrip(appointments, startTime,
                                                       MinutesPerMile, startingLocation)
     IN /\ suggestedTimes' = schedule.times
        /\ arrivalInstants' = schedule.instants
        /\ returnTime' = schedule.returnTime
  /\ UNCHANGED <<inputVars, routeVars, clientVars, matrixVars, serverVars, apiVars>>

\* the round-trip page
RunClientSchedule ==
  /\ generator = "none"
  /\ generator' = "clientSchedule"
  /\ LET schedule == clientSchedule(appointments, startingLocation, startTime, DriveTable)
     IN /\ suggestedTimes' = schedule.times
        /\ arrivalInstants' = schedule.instants
        /\ returnTime' = schedule.returnTime
  /\ UNCHANGED <<inputVars, routeVars, clientVars, matrixVars, serverVars, apiVars>>

NextSchedule ==
  \/ RunGenerateAppointmentTimes
  \/ RunGenerateAppointmentTimesRoundTrip
  \/ RunClientSchedule

SpecSchedule == InitSchedule /\ [][NextSchedule]_vars

\* ========================================= properties: schedule generators
\* The wall-clock value of a formatted time, in minutes after 12:00 AM.
ClockMinutes(t) ==
  ((t.hour % 12) + (IF t.period = "PM" THEN 12 ELSE 0)) * 60 + t.minute

\* C5: the arrival times a schedule generator emits (the wall-clock values
\* returned and persisted as suggestedTime) are non-decreasing in route order.
C5_ArrivalTimesNonDecreasing ==
  generator # "none"
    => \A i \in 1..(Len(suggestedTimes) - 1) :
         ClockMinutes(suggestedTimes[i]) <= ClockMinutes(suggestedTimes[i + 1])

\* The instants behind the emitted values never decrease.
ArrivalInstantsNonDecreasing ==
  \A i \in 1..(Len(arrivalInstants) - 1) : arrivalInstants[i] <= arrivalInstants[i + 1]

\* The generators that schedule a round trip.
RoundTripGenerators == {"generateAppointmentTimesRoundTrip", "clientSchedule"}

\* distance(p, q) of the generator that ran: haversine on the server, the
\* measured driving distance on the page.
GeneratorDistance(p, q) ==
  IF generator = "clientSchedule"
    THEN DriveTable[<<p, q>>].distance
    ELSE calculateDistance(p, q)

\* The instant reached after the last stop's service duration.
AfterLastStop ==
  arrivalInstants[Len(appointments)] + appointments[Len(appointments)].duration

\* The return leg in minutes as C16 states it: ceil(distance * minutesPerMile).
ReturnLegMinutes ==
  TravelMinutes(GeneratorDistance(CoordOf(appointments[Len(appointments)]),
                                  startingLocation.coordinates),
                MinutesPerMile)

\* C16: with an origin set and a non-empty route, returnTime is the time
\* reached after the last stop's duration plus ceil(distance(last stop,
\* origin) * minutesPerMile) minutes, and it is not earlier than the last
\* arrival time; with no origin set there is no returnTime.
C16_ReturnTimeAfterLastLeg ==
  generator \in RoundTripGenerators
    => IF startingLocation.isSet
         THEN /\ returnTime = FormatTime(AfterLastStop + ReturnLegMinutes)
              /\ ClockMinutes(returnTime)
                   >= ClockMinutes(suggestedTimes[Len(appointments)])
         ELSE returnTime = NoTime

\* The parts that hold.  On the server returnTime is the formatted instant
\* AfterLastStop + ceil(distance * minutesPerMile).
ServerReturnInstant ==
  (generator = "generateAppointmentTimesRoundTrip" /\ startingLocation.isSet)
    => returnTime = FormatTime(AfterLastStop + ReturnLegMinutes)

\* On the page it is AfterLastStop + ceil(duration of the measured leg).
ClientReturnInstant ==
  (generator = "clientSchedule" /\ startingLocation.isSet)
    => returnTime =
         FormatTime(AfterLastStop
                    + CeilDuration(DriveTable[<<CoordOf(appointments[Len(appointments)]),
                                               startingLocation.coordinates>>].duration))

\* Without an origin no returnTime is produced.
NoOriginNoReturnTime ==
  (generator # "none" /\ ~startingLocation.isSet) => returnTime = NoTime

\* With every instant of the schedule on the day of the start, returnTime is
\* not earlier than the last arrival time.
SameDayReturnNotEarlier ==
  (generator = "generateAppointmentTimesRoundTrip" /\ startingLocation.isSet
     /\ AfterLastStop + ReturnLegMinutes < 1440)
    => ClockMinutes(returnTime) >= ClockMinutes(suggestedTimes[Len(appointments)])

\* ceil(distance(p, q) * minutesPerMile) with the distance of the generator
\* that ran.
LegMinutes(p, q) == TravelMinutes(GeneratorDistance(p, q), MinutesPerMile)

\* C21: with an origin set the first stop's arrival time is the start time
\* plus ceil(distance(origin, first stop) * minutesPerMile) minutes, for
\* every schedule generator; without an origin it is the start time.
C21_FirstArrivalAfterOriginLeg ==
  generator # "none"
    => suggestedTimes[1] =
         FormatTime(ParseStartTime(startTime)
                    + (IF startingLocation.isSet
                         THEN LegMinutes(startingLocation.coordinates,
                                         CoordOf(appointments[1]))
                         ELSE 0))

\* What holds: the round-trip server generator adds the leg from the origin.
RoundTripServerFirstArrival ==
  generator = "generateAppointmentTimesRoundTrip"
    => suggestedTimes[1] =
         FormatTime(ParseStartTime(startTime)
                    + (IF startingLocation.isSet
                         THEN LegMinutes(startingLocation.coordinates,
                                         CoordOf(appointments[1]))
                         ELSE 0))

\* The open-path server generator emits the start time for the first stop,
\* origin or not.
OpenPathFirstArrivalIsStart ==
  generator = "generateAppointmentTimes"
    => suggestedTimes[1] = FormatTime(ParseStartTime(startTime))

\* Without an origin the first arrival is the start time.
NoOriginFirstArrivalIsStart ==
  (generator # "none" /\ ~startingLocation.isSet)
    => suggestedTimes[1] = FormatTime(ParseStartTime(startTime))

\* C22: for consecutive stops i, i + 1 of the route, arrival(i + 1) =
\* arrival(i) + duration(i) + ceil(distance(stop i, stop i + 1) *
\* minutesPerMile): each leg is rounded up on its own and the duration is
\* added after the arrival is recorded.
C22_ConsecutiveArrivals ==
  generator # "none"
    => \A i \in 1..(Len(appointments) - 1) :
         /\ arrivalInstants[i + 1] =
              arrivalInstants[i] + appointments[i].duration
                + LegMinutes(CoordOf(appointments[i]), CoordOf(appointments[i + 1]))
         /\ suggestedTimes[i + 1] = FormatTime(arrivalInstants[i + 1])

\* What holds: both server generators follow the recurrence.
ServerConsecutiveArrivals ==
  generator \in {"generateAppointmentTimes", "generateAppointmentTimesRoundTrip"}
    => \A i \in 1..(Len(appointments) - 1) :
         /\ arrivalInstants[i + 1] =
              arrivalInstants[i] + appointments[i].duration
                + LegMinutes(CoordOf(appointments[i]), CoordOf(appointments[i + 1]))
         /\ suggestedTimes[i + 1] = FormatTime(arrivalInstants[i + 1])

\* The page follows it with the measured duration of the leg in the place of
\* distance * minutesPerMile.
ClientConsecutiveArrivals ==
  generator = "clientSchedule"
    => \A i \in 1..(Len(appointments) - 1) :
         arrivalInstants[i + 1] =
           arrivalInstants[i] + appointments[i].duration
             + CeilDuration(DriveTable[<<CoordOf(appointments[i]),
                                         CoordOf(appointments[i + 1])>>].duration)

\* ============================= specification: the page's optimizeAppointments
\* How the distance-matrix request of an invocation can settle: answered
\* from the provider, fetch rejected, a non-OK HTTP response, the provider's
\* fetch throwing inside the endpoint, a provider status other than OK for
\* the request as a whole.
MatrixOutcomes ==
  {"OK", "NETWORK_ERROR", "HTTP_ERROR", "PROVIDER_THREW", "MAX_ELEMENTS_EXCEEDED"}

\* What fetch('/api/distance-matrix') resolves to under an outcome.
MatrixHttp(all, outcome) ==
  [failed |-> outcome = "NETWORK_ERROR",
   response |->
     IF outcome = "HTTP_ERROR" THEN [status |-> 500, distanceMatrix |-> <<>>]
     ELSE distanceMatrixPOST(TRUE, all, all, TRUE,
            [threw |-> outcome = "PROVIDER_THREW",
             data |-> GoogleData(all, all,
                        IF outcome = "MAX_ELEMENTS_EXCEEDED" THEN outcome ELSE "OK",
                        oneWay, {})])]

\* The outcomes in which the provider has answered the endpoint's fetch.
ProviderOutcomes == {"OK", "PROVIDER_THREW", "MAX_ELEMENTS_EXCEEDED"}

\* Whether a /api/distance request for the pair is passed on to the provider:
\* the endpoint answers 400 itself when a coordinate is 0.
ReachesProvider(pq) ==
  pq[1].lat # 0 /\ pq[1].lng # 0 /\ pq[2].lat # 0 /\ pq[2].lng # 0

\* googleStatus "NO_ANSWER" is the world in which the provider never answers:
\* no fetch passed on to it settles, and nothing in the endpoints or the page
\* (no AbortController, no signal, no timer) ends the wait.
InitClient ==
  /\ appointments \in {<<>>} \cup {MkAppointments(q, [i \in 1..Len(q) |-> 60]) : q \in AddressLists}
  /\ startingLocation \in StartingLocations
  /\ startTime = [hh |-> 9, mm |-> 0]
  /\ googleStatus \in {"OK", "OVER_QUERY_LIMIT", "NO_ANSWER"}
  /\ oneWay \in RoadNetworks
  /\ (googleStatus = "NO_ANSWER" => oneWay = {})
  /\ RouteIdle
  /\ SchedIdle
  /\ ClientIdle
  /\ MatrixIdle
  /\ ServerIdle
  /\ ApiIdle

\* The button is disabled while appointments.length === 0 || isOptimizing.
ClickOptimize ==
  /\ pc = "idle"
  /\ Len(appointments) # 0
  /\ ~isOptimizing
  /\ isOptimizing' = TRUE
  /\ renderedAppointments' = appointments
  /\ pc' = "routing"
  /\ UNCHANGED <<inputVars, routeVars, schedVars, matrixVars, serverVars, apiVars,
                 matrixOutcome, optimizedAppointments, measuredLegs>>

\* optimizeRouteWithDriving returns its input before any request.
RouteWithoutMatrix ==
  /\ pc = "routing"
  /\ Len(renderedAppointments) <= 1
  /\ optimizedAppointments' = renderedAppointments
  /\ builder' = "roundTripClient"
  /\ pc' = "measuring"
  /\ UNCHANGED <<inputVars, usedMatrix, optimizedRoute, totalDistance, schedVars,
                 matrixVars, serverVars, apiVars, isOptimizing, matrixOutcome, measuredLegs,
                 renderedAppointments>>

\* await calculateDistanceMatrix(allCoords, allCoords) settles; the route is built.
MatrixSettles ==
  /\ pc = "routing"
  /\ Len(renderedAppointments) > 1
  /\ \E outcome \in MatrixOutcomes :
       /\ (outcome \in ProviderOutcomes => googleStatus # "NO_ANSWER")
       /\ matrixOutcome' = outcome
       /\ LET all == AllCoords(renderedAppointments, startingLocation)
              distanceMatrix == calculateDistanceMatrix(all, all, MatrixHttp(all, outcome))
          IN /\ usedMatrix' = distanceMatrix
             /\ optimizedAppointments' =
                  optimizeRouteWithDriving(renderedAppointments, startingLocation,
                                           distanceMatrix, renderedAppointments)
  /\ builder' = "roundTripClient"
  /\ pc' = "measuring"
  /\ UNCHANGED <<inputVars, optimizedRoute, totalDistance, schedVars, matrixVars,
                 serverVars, apiVars, isOptimizing, measuredLegs, renderedAppointments>>

\* The legs optimizeAppointments measures for the total: the consecutive
\* pairs of routeCoords, then last -> first when there is more than one.
LegPairs(routeCoords) ==
  [i \in 1..(Len(routeCoords) - 1) |-> <<routeCoords[i], routeCoords[i + 1]>>]
    \o (IF Len(routeCoords) > 1
          THEN <<<<routeCoords[Len(routeCoords)], routeCoords[1]>>>>
          ELSE <<>>)

\* scheduledAppointments: the pseudo-stop of the starting location, then the
\* appointments with their suggestedTime.
ScheduledAppointments(route, startLoc, st, times) ==
  (IF startLoc.isSet
     THEN <<[id |-> 0, latitude |-> startLoc.coordinates.lat,
             longitude |-> startLoc.coordinates.lng, duration |-> 0,
             isStart |-> TRUE, suggestedTime |-> FormatTime(ParseStartTime(st))]>>
     ELSE <<>>)
    \o [i \in 1..Len(route) |->
          [id |-> route[i].id, latitude |-> route[i].latitude,
           longitude |-> route[i].longitude, duration |-> route[i].duration,
           isStart |-> FALSE, suggestedTime |-> times[i]]]

\* The outbound legs only: the return leg is left out.
totalRoundTripDistanceOutbound(route, startLoc, drive) ==
  IF Len(route) > 0
    THEN LET routeCoords == RouteCoords(route, startLoc)
         IN SumSeq([i \in 1..(Len(routeCoords) - 1) |->
                      drive[<<routeCoords[i], routeCoords[i + 1]>>].distance])
    ELSE 0

\* totalRoundTripDistance of optimizeAppointments: 0 for an empty route, else
\* the measured legs of routeCoords added up, the return leg included.
totalRoundTripDistance(route, startLoc, drive) ==
  IF Len(route) > 0
    THEN LET pairs == LegPairs(RouteCoords(route, startLoc))
         IN SumSeq([i \in 1..Len(pairs) |-> drive[pairs[i]].distance])
    ELSE 0

\* The awaited calculateDrivingDistance calls settle; the rest of the try
\* block and the finally block run: totals, schedule, state, isOptimizing.
LegsSettle ==
  /\ pc = "measuring"
  /\ LET pairs == LegPairs(RouteCoords(optimizedAppointments, startingLocation))
         drive == DriveTable
         schedule == clientSchedule(optimizedAppointments, startingLocation,
                                    startTime, drive)
     IN /\ (googleStatus = "NO_ANSWER"
              => \A i \in 1..Len(pairs) : ~ReachesProvider(pairs[i]))
        /\ measuredLegs' = [i \in 1..Len(pairs) |-> drive[pairs[i]]]
        /\ totalDistance' = totalRoundTripDistance(optimizedAppointments,
                                                   startingLocation, drive)
        /\ optimizedRoute' = ScheduledAppointments(optimizedAppointments, startingLocation,
                                                   startTime, schedule.times)
        /\ suggestedTimes' = schedule.times
        /\ arrivalInstants' = schedule.instants
        /\ returnTime' = IF startingLocation.isSet THEN schedule.returnTime ELSE returnTime
  /\ generator' = "clientSchedule"
  /\ isOptimizing' = FALSE
  /\ pc' = "done"
  /\ UNCHANGED <<inputVars, matrixVars, serverVars, apiVars, builder, usedMatrix,
                 matrixOutcome, optimizedAppointments, renderedAppointments>>

NextClient ==
  \/ ClickOptimize
  \/ RouteWithoutMatrix
  \/ MatrixSettles
  \/ LegsSettle

SpecClient == InitClient /\ [][NextClient]_vars

\* The distance-matrix request settles because the provider answered.
ProviderAnswersMatrix == MatrixSettles /\ matrixOutcome' \in ProviderOutcomes

\* The state in which ProviderAnswersMatrix can happen: the page awaits the
\* matrix and the provider is one that answers.
CanAnswerMatrix ==
  /\ pc = "routing"
  /\ Len(renderedAppointments) > 1
  /\ googleStatus # "NO_ANSWER"

\* The state in which LegsSettle can happen: the page awaits the legs and
\* none of them waits on a provider that never answers.
CanSettleLegs ==
  /\ pc = "measuring"
  /\ (googleStatus = "NO_ANSWER"
        => LET pairs == LegPairs(RouteCoords(optimizedAppointments, startingLocation))
           IN \A i \in 1..Len(pairs) : ~ReachesProvider(pairs[i]))

\* The page's continuations run once what they await has settled, and a
\* provider that answers does so eventually; a request failing between the
\* page and the server is possible but never owed.  The last two conjuncts
\* are WF_vars(ProviderAnswersMatrix) and WF_vars(LegsSettle) with the
\* enabling conditions written out.
SpecClientLive ==
  /\ InitClient
  /\ [][NextClient]_vars
  /\ WF_vars(RouteWithoutMatrix)
  /\ ([]<>(~CanAnswerMatrix) \/ []<><<ProviderAnswersMatrix>>_vars)
  /\ ([]<>(~CanSettleLegs) \/ []<><<LegsSettle>>_vars)

\* ============================ properties: the page's optimizeAppointments
\* C6: when the distance-matrix request fails as a whole, the invocation
\* still ends with a complete route and schedule, every distance used in it
\* (matrix cells, measured legs, the total) being the haversine estimate.
C6_WholeFailureAllHaversine ==
  (pc = "done" /\ matrixOutcome \in MatrixOutcomes \ {"OK"})
    => /\ IsPermutation(optimizedAppointments, appointments)
       /\ Len(suggestedTimes) = Len(appointments)
       /\ ~isOptimizing
       /\ LET all == AllCoords(appointments, startingLocation)
              pairs == LegPairs(RouteCoords(optimizedAppointments, startingLocation))
          IN /\ usedMatrix = HaversineMatrix(all, all)
             /\ \A i \in 1..Len(pairs) :
                  measuredLegs[i].distance = calculateHaversineDistance(pairs[i][1], pairs[i][2])
             /\ totalDistance =
                  SumSeq([i \in 1..Len(pairs) |->
                            calculateHaversineDistance(pairs[i][1], pairs[i][2])])

\* With an empty list the button is disabled: optimizeAppointments does not
\* run, nothing is requested and nothing is stored.
EmptyListNeverOptimized ==
  Len(appointments) = 0
    => /\ pc = "idle"
       /\ ~isOptimizing
       /\ optimizedRoute = <<>>
       /\ usedMatrix = <<>>
       /\ measuredLegs = <<>>

\* C11: the total the page reports for a round trip from a set origin is the
\* sum, along the chosen order, of entries of the matrix the route was built
\* with: origin -> first, the consecutive legs, last -> origin.
C11_TotalFromRoutingMatrix ==
  (pc = "done" /\ startingLocation.isSet /\ Len(appointments) >= 2)
    => totalDistance = TourLength(usedMatrix, optimizedAppointments)

\* OptimizationResults: scheduledAppointments.map((apt, index) => ...) shows
\* the badge START for the starting location and the array index for an
\* appointment.  JavaScript indexes start at 0.
OptimizationResults(scheduled) ==
  [k \in 1..Len(scheduled) |->
     [id |-> scheduled[k].id, isStart |-> scheduled[k].isStart,
      index |-> k - 1, suggestedTime |-> scheduled[k].suggestedTime]]

\* The entries shown with a position.
ShownStops(scheduled) ==
  SelectSeq(OptimizationResults(scheduled), LAMBDA shown : ~shown.isStart)

\* C14: after a completed optimization every appointment of the route is
\* shown with its 1-based index in the computed route as position, so the
\* positions are 1..n, and with the arrival time computed for that index.
C14_PositionsAreRouteIndexes ==
  pc = "done"
    => LET stops == ShownStops(optimizedRoute)
       IN /\ Len(stops) = Len(optimizedAppointments)
          /\ \A i \in 1..Len(stops) :
               /\ stops[i].id = optimizedAppointments[i].id
               /\ stops[i].index = i
               /\ stops[i].suggestedTime = suggestedTimes[i]

\* What holds: with a starting location set the positions are 1..n.
PositionsFromSetOrigin ==
  (pc = "done" /\ startingLocation.isSet)
    => LET stops == ShownStops(optimizedRoute)
       IN /\ Len(stops) = Len(optimizedAppointments)
          /\ \A i \in 1..Len(stops) :
               /\ stops[i].id = optimizedAppointments[i].id
               /\ stops[i].index = i
               /\ stops[i].suggestedTime = suggestedTimes[i]

\* C12: every optimization call that has started eventually completes, also
\* when the provider never answers.
C12_EveryCallCompletes == (pc = "routing") ~> (pc = "done")

\* What does hold: a call completes when the provider answers its requests.
CompletesWhenProviderAnswers ==
  (pc = "routing" /\ googleStatus # "NO_ANSWER") ~> (pc = "done")

\* The parts of C6 that do hold: the route and schedule are complete, the
\* matrix the route was built with is the haversine matrix.
WholeFailureRouteFromHaversine ==
  (pc = "done" /\ matrixOutcome \in MatrixOutcomes \ {"OK"})
    => /\ IsPermutation(optimizedAppointments, appointments)
       /\ Len(suggestedTimes) = Len(appointments)
       /\ ~isOptimizing
       /\ LET all == AllCoords(appointments, startingLocation)
          IN usedMatrix = HaversineMatrix(all, all)

\* ================================ specification: POST /api/distance-matrix
MaxMatrix == 2

\* Coordinate lists of a request: 1..MaxMatrix pairwise different addresses.
CoordLists ==
  {q \in UNION {[1..n -> Coords] : n \in 1..MaxMatrix} :
     \A i, j \in 1..Len(q) : i # j => q[i] # q[j]}

\* The provider's worlds for a matrix request: no detour, or one.
MatrixRoadNetworks == {{}, {<<Coord(1, 0), Coord(1, 1)>>}}

InitMatrix ==
  /\ reqOrigins \in CoordLists
  /\ reqDestinations \in CoordLists
  /\ googleStatus \in {"OK", "OVER_QUERY_LIMIT"}
  /\ failingCells \in {f \in SUBSET ((1..Len(reqOrigins)) \X (1..Len(reqDestinations))) :
                         Cardinality(f) <= 2}
  /\ oneWay \in MatrixRoadNetworks
  /\ (googleStatus # "OK" => failingCells = {} /\ oneWay = {})
  /\ matrixResponse = NoResponse
  /\ appointments = <<>>
  /\ startingLocation = NoLocation
  /\ startTime = [hh |-> 9, mm |-> 0]
  /\ RouteIdle
  /\ SchedIdle
  /\ ClientIdle
  /\ ServerIdle
  /\ ApiIdle

\* The endpoint answers an authenticated request; the API key is configured.
EndpointResponds ==
  /\ matrixResponse = NoResponse
  /\ matrixResponse' =
       distanceMatrixPOST(TRUE, reqOrigins, reqDestinations, TRUE,
         [threw |-> FALSE,
          data |-> GoogleData(reqOrigins, reqDestinations, googleStatus, oneWay,
                              failingCells)])
  /\ UNCHANGED <<inputVars, routeVars, schedVars, clientVars, serverVars, apiVars,
                 reqOrigins, reqDestinations, failingCells>>

\* The page's calculateDistanceMatrix hands the response's matrix on.
ClientReceives ==
  /\ matrixResponse # NoResponse
  /\ usedMatrix = <<>>
  /\ usedMatrix' = calculateDistanceMatrix(reqOrigins, reqDestinations,
                     [failed |-> FALSE, response |-> matrixResponse])
  /\ UNCHANGED <<inputVars, builder, optimizedRoute, totalDistance, schedVars,
                 clientVars, matrixVars, serverVars, apiVars>>

NextMatrix ==
  \/ EndpointResponds
  \/ ClientReceives

SpecMatrix == InitMatrix /\ [][NextMatrix]_vars

\* ================================= properties: POST /api/distance-matrix
\* The provider's value of a cell, converted to miles.
PreciseCell(i, j) ==
  MetersToMiles(ProviderMeters(reqOrigins[i], reqDestinations[j], oneWay))

\* The geometric estimate of a cell.
GeometricCell(i, j) == calculateHaversineDistance(reqOrigins[i], reqDestinations[j])

\* M holds the provider's value in every OK cell, the estimate in exactly
\* the failing cells.
PatchedExactly(M) ==
  /\ Len(M) = Len(reqOrigins)
  /\ \A i \in 1..Len(reqOrigins) :
       /\ Len(M[i]) = Len(reqDestinations)
       /\ \A j \in 1..Len(reqDestinations) :
            M[i][j] = IF <<i, j>> \in failingCells THEN GeometricCell(i, j)
                                                   ELSE PreciseCell(i, j)

\* C7: when the provider call succeeds as a whole, the returned matrix (the
\* endpoint's, and the one the page receives) holds the provider's value in
\* every cell whose status is OK and the geometric estimate in exactly the
\* failing cells.
C7_OnlyFailingCellsPatched ==
  (googleStatus = "OK" /\ matrixResponse # NoResponse)
    => /\ matrixResponse.status = 200
       /\ PatchedExactly(matrixResponse.distanceMatrix)
       /\ (usedMatrix # <<>> => PatchedExactly(usedMatrix))

\* A response to a 2 x 2 request with one failing cell whose estimate differs
\* from the provider's value, and a succeeding cell that differs too.
C7_Witness ==
  /\ googleStatus = "OK"
  /\ usedMatrix # <<>>
  /\ Len(reqOrigins) = 2 /\ Len(reqDestinations) = 2
  /\ Cardinality(failingCells) = 1
  /\ \E c \in failingCells : GeometricCell(c[1], c[2]) # PreciseCell(c[1], c[2])
  /\ \E i, j \in 1..2 :
       /\ <<i, j>> \notin failingCells
       /\ PreciseCell(i, j) # GeometricCell(i, j)
       /\ usedMatrix[i][j] = PreciseCell(i, j)

\* ===================================== specification: the optimize handlers
MaxRows == 2
MaxDeletes == 1

Users == {"demo-user", "u1"}

\* Addresses of the appointments in the table, newest first.
SeedAddresses == <<Coord(1, 0), Coord(1, 1), Coord(1, 2), Coord(0, 1)>>

\* A row that has never been optimized: optimizedOrder and suggestedTime null.
NewRow(i, owner) ==
  [id |-> 10 * i, userId |-> owner,
   latitude |-> SeedAddresses[i].lat, longitude |-> SeedAddresses[i].lng,
   duration |-> 60, optimizedOrder |-> 0, suggestedTime |-> NoTime]

\* prisma.appointment.findMany({ where: { userId }, orderBy: { createdAt: 'desc' } })
findMany(rows, userId) ==
  LET Owned(r) == r.userId = userId
  IN SelectSeq(rows, Owned)

\* findMany({ where: { userId }, orderBy: { optimizedOrder: 'asc' } }): the
\* owned rows in any order that is ascending in optimizedOrder; the order of
\* rows with equal optimizedOrder is the database's choice.
findManyByOptimizedOrder(rows, userId) ==
  LET owned == findMany(rows, userId)
      n == Len(owned)
      orders == {f \in [1..n -> 1..n] :
                   /\ \A i, j \in 1..n : i # j => f[i] # f[j]
                   /\ \A i \in 1..(n - 1) :
                        owned[f[i]].optimizedOrder <= owned[f[i + 1]].optimizedOrder}
  IN {[i \in 1..n |-> owned[f[i]]] : f \in orders}

\* Never answer 400 for an empty list.
NoAppointmentsFoundNever(appts) == FALSE

\* if (appointments.length === 0)
NoAppointmentsFound(appts) == Len(appts) = 0

\* if (startingLocation && startingLocation.lat && startingLocation.lng):
\* startCoords stays undefined when a coordinate is 0.
ParseStartingLocation(loc) ==
  IF loc.isSet /\ loc.coordinates.lat # 0 /\ loc.coordinates.lng # 0
    THEN loc ELSE NoLocation

\* POST /api/optimize up to the updates.  session is the session's user id,
\* "none" without a session.  status 0: the handler goes on to the updates.
optimizePOST(session, rows, st, loc) ==
  IF session = "none"
    THEN [status |-> 401, userId |-> "", route |-> <<>>, times |-> <<>>, totalDistance |-> 0]
  ELSE LET found == findMany(rows, session)
           startCoords == ParseStartingLocation(loc)
           route == optimizeRoute(found, startCoords)
       IN IF NoAppointmentsFound(found)
            THEN [status |-> 400, userId |-> session, route |-> <<>>, times |-> <<>>,
                  totalDistance |-> 0]
            ELSE [status |-> 0, userId |-> session, route |-> route,
                  times |-> generateAppointmentTimes(route, st, MinutesPerMile).times,
                  totalDistance |-> calculateTotalDistance(route, startCoords)]

\* POST /api/optimize-roundtrip up to the updates: no session, the rows of
\* the hardcoded user.
optimizeRoundTripPOST(rows, st, loc) ==
  LET found == findMany(rows, "demo-user")
      best == optimizeRoundTripRoute(found, loc)
  IN IF NoAppointmentsFound(found)
       THEN [status |-> 400, userId |-> "demo-user", route |-> <<>>, times |-> <<>>,
             totalDistance |-> 0]
       ELSE [status |-> 0, userId |-> "demo-user", route |-> best.route,
             times |-> generateAppointmentTimesRoundTrip(best.route, st, MinutesPerMile,
                                                         loc).times,
             totalDistance |-> best.totalDistance]

\* Position of the row with this id, 0 when it is gone.
RowIndex(rows, id) == FindIndexById(rows, id)

\* The requests a call can be: [endpoint, session, startTime, startingLocation];
\* session is the user the request's session cookie stands for, "none" without
\* one.  /api/optimize-roundtrip reads no session.
Requests ==
  {[endpoint |-> "/api/optimize", session |-> "none",
    startTime |-> [hh |-> 9, mm |-> 0], startingLocation |-> NoLocation],
   [endpoint |-> "/api/optimize", session |-> "demo-user",
    startTime |-> [hh |-> 9, mm |-> 0], startingLocation |-> NoLocation],
   [endpoint |-> "/api/optimize", session |-> "demo-user",
    startTime |-> [hh |-> 22, mm |-> 0],
    startingLocation |-> [isSet |-> TRUE, coordinates |-> Coord(1, 2)]],
   [endpoint |-> "/api/optimize", session |-> "u1",
    startTime |-> [hh |-> 9, mm |-> 0], startingLocation |-> NoLocation],
   [endpoint |-> "/api/optimize-roundtrip", session |-> "none",
    startTime |-> [hh |-> 9, mm |-> 0],
    startingLocation |-> [isSet |-> TRUE, coordinates |-> Coord(1, 2)]],
   [endpoint |-> "/api/optimize-roundtrip", session |-> "none",
    startTime |-> [hh |-> 22, mm |-> 0], startingLocation |-> NoLocation],
   [endpoint |-> "/api/optimize-roundtrip", session |-> "u1",
    startTime |-> [hh |-> 9, mm |-> 0], startingLocation |-> NoLocation]}

InitServer ==
  /\ \E n \in 0..MaxRows, owner \in Users : db = [i \in 1..n |-> NewRow(i, owner)]
  /\ calls = [c \in Calls |-> IdleCall]
  /\ deletes = 0
  /\ appointments = <<>>
  /\ startingLocation = NoLocation
  /\ startTime = [hh |-> 9, mm |-> 0]
  /\ googleStatus = "OK"
  /\ oneWay = {}
  /\ RouteIdle
  /\ SchedIdle
  /\ ClientIdle
  /\ MatrixIdle
  /\ ApiIdle

\* A request arrives and the handler runs up to `await Promise.all`: session
\* check, findMany, empty check, route and times, one update issued per stop.
\* Call 2 is the one that arrives second.
Receive(c) ==
  /\ calls[c].pc = "idle"
  /\ \A b \in Calls : b < c => calls[b].pc # "idle"
  /\ \E req \in Requests :
       LET plan == IF req.endpoint = "/api/optimize"
                     THEN optimizePOST(req.session, db, req.startTime,
                                       req.startingLocation)
                     ELSE optimizeRoundTripPOST(db, req.startTime, req.startingLocation)
       IN calls' = [calls EXCEPT ![c] =
            [pc |-> IF plan.status = 0 THEN "updating" ELSE "ended",
             endpoint |-> req.endpoint, session |-> req.session, userId |-> plan.userId,
             startTime |-> req.startTime, startingLocation |-> req.startingLocation,
             before |-> IF plan.status = 401 THEN <<>> ELSE db,
             route |-> plan.route, times |-> plan.times,
             totalDistance |-> plan.totalDistance,
             pending |-> 1..Len(plan.route), rejected |-> FALSE, writes |-> 0,
             status |-> plan.status, body |-> <<>>]]
  /\ UNCHANGED <<inputVars, routeVars, schedVars, clientVars, matrixVars, apiVars, db, deletes>>

\* One of the issued prisma.appointment.update calls runs: it writes
\* optimizedOrder and suggestedTime, or rejects when the row is gone.  The
\* updates were all issued before the await, so they run in any order and
\* also after the handler has answered.
UpdateOne(c, i) ==
  /\ i \in calls[c].pending
  /\ LET k == RowIndex(db, calls[c].route[i].id)
     IN IF k # 0
          THEN /\ db' = [db EXCEPT ![k].optimizedOrder = i,
                                   ![k].suggestedTime = calls[c].times[i]]
               /\ calls' = [calls EXCEPT ![c].pending = @ \ {i}, ![c].writes = @ + 1]
          ELSE /\ db' = db
               /\ calls' = [calls EXCEPT ![c].pending = @ \ {i}, ![c].rejected = TRUE]
  /\ UNCHANGED <<inputVars, routeVars, schedVars, clientVars, matrixVars, apiVars, deletes>>

\* Promise.all has rejected: catch, 500.
RespondFailure(c) ==
  /\ calls[c].pc = "updating"
  /\ calls[c].rejected
  /\ calls' = [calls EXCEPT ![c].pc = "ended", ![c].status = 500]
  /\ UNCHANGED <<inputVars, routeVars, schedVars, clientVars, matrixVars, apiVars, db, deletes>>

\* Promise.all has resolved: the rows are fetched again and returned.
Refetch(c) ==
  /\ calls[c].pc = "updating"
  /\ calls[c].pending = {}
  /\ ~calls[c].rejected
  /\ \E updatedAppointments \in findManyByOptimizedOrder(db, calls[c].userId) :
       calls' = [calls EXCEPT ![c].pc = "ended", ![c].status = 200,
                              ![c].body = updatedAppointments]
  /\ UNCHANGED <<inputVars, routeVars, schedVars, clientVars, matrixVars, apiVars, db, deletes>>

\* DELETE /api/appointments?id= by the row's owner: findFirst, delete.
DeleteAppointment(k) ==
  /\ deletes < MaxDeletes
  /\ k \in 1..Len(db)
  /\ db' = RemoveAt(db, k)
  /\ deletes' = deletes + 1
  /\ UNCHANGED <<inputVars, routeVars, schedVars, clientVars, matrixVars, apiVars, calls>>

NextServer ==
  \/ \E c \in Calls : Receive(c)
  \/ \E c \in Calls, i \in 1..(MaxRows + 1) : UpdateOne(c, i)
  \/ \E c \in Calls : RespondFailure(c)
  \/ \E c \in Calls : Refetch(c)
  \/ \E k \in 1..(MaxRows + 1) : DeleteAppointment(k)

SpecServer == InitServer /\ [][NextServer]_vars

\* ===================================== properties: the optimize handlers
\* The stop list a call read.
Found(c) == findMany(calls[c].before, calls[c].userId)

\* The call got past the session check and has answered.
Answered(c) == calls[c].pc = "ended" /\ calls[c].status # 401

\* No other call has arrived.
Alone(c) == \A b \in Calls \ {c} : calls[b].pc = "idle"

\* The response determined by the call's own inputs: its route, each row
\* with its position and its arrival time.
OwnResponse(c) ==
  [i \in 1..Len(calls[c].route) |->
     [calls[c].route[i] EXCEPT !.optimizedOrder = i,
                               !.suggestedTime = calls[c].times[i]]]

\* C8: a call whose stop list is empty answers 400, has issued no update and
\* written nothing, and never answers with a success result.
C8_EmptyListRejected ==
  \A c \in Calls :
    (Answered(c) /\ Len(Found(c)) = 0)
      => /\ calls[c].status = 400
         /\ calls[c].writes = 0
         /\ calls[c].pending = {}
         /\ calls[c].body = <<>>

\* An empty list was rejected while the table holds another user's rows.
C8_Witness ==
  \E c \in Calls :
    /\ Answered(c)
    /\ Len(Found(c)) = 0
    /\ calls[c].status = 400
    /\ calls[c].endpoint = "/api/optimize"
    /\ Len(db) > 0

\* C9: when a call running alone has answered, either it reports success and
\* every appointment of its route (that has not been deleted since) carries
\* the new optimizedOrder and suggestedTime, or it reports failure and no
\* appointment's optimizedOrder or suggestedTime has changed.
C9_AllOrNothing ==
  \A c \in Calls :
    (Answered(c) /\ Alone(c) /\ Len(Found(c)) > 0)
      => \/ /\ calls[c].status = 200
            /\ \A i \in 1..Len(calls[c].route) :
                 \/ RowIndex(db, calls[c].route[i].id) = 0
                 \/ \E k \in 1..Len(db) : db[k] = OwnResponse(c)[i]
         \/ /\ calls[c].status # 200
            /\ \A k \in 1..Len(db) :
                 \E j \in 1..Len(calls[c].before) : db[k] = calls[c].before[j]

\* C10: with no appointment deleted, the response of every call is the one
\* determined by its own inputs, whatever the other call does meanwhile.
C10_ResponsesIndependent ==
  \A c \in Calls :
    (calls[c].status = 200 /\ deletes = 0) => calls[c].body = OwnResponse(c)

\* What does hold: a call that runs alone answers with its own response.
AloneResponseIsOwn ==
  \A c \in Calls :
    (calls[c].status = 200 /\ deletes = 0 /\ Alone(c)) => calls[c].body = OwnResponse(c)


\* C26: a call without an authenticated session is answered 401 and has read
\* and written no appointment; a call with one has read and written only
\* appointments of the session's user.  (The calls are those of the two
\* optimize handlers.)
C26_OnlySessionsAppointments ==
  \A c \in Calls :
    calls[c].pc # "idle"
      => IF calls[c].session = "none"
           THEN /\ calls[c].status = 401
                /\ Len(calls[c].route) = 0
                /\ calls[c].writes = 0
           ELSE \A i \in 1..Len(calls[c].route) :
                  calls[c].route[i].userId = calls[c].session

\* The same of the calls to /api/optimize alone.
OptimizeOnlySessionsAppointments ==
  \A c \in Calls :
    calls[c].endpoint = "/api/optimize"
      => IF calls[c].session = "none"
           THEN /\ calls[c].status = 401
                /\ Len(calls[c].route) = 0
                /\ calls[c].writes = 0
           ELSE \A i \in 1..Len(calls[c].route) :
                  calls[c].route[i].userId = calls[c].session

\* An unauthenticated POST /api/appointments is answered 401.
CreateNeedsSession ==
  (apiRequest # NoRequest /\ apiRequest.endpoint = "/api/appointments"
     /\ ~apiRequest.session)
    => apiResponse.status = 401

InitEdge ==
  /\ appointments \in {<<>>} \cup {MkAppointments(<<c>>, <<d>>) : c \in Coords, d \in Durations}
  /\ startingLocation \in StartingLocations
  /\ googleStatus \in {"OK", "OVER_QUERY_LIMIT"}
  /\ oneWay \in RoadNetworks
  /\ (googleStatus # "OK" => oneWay = {})
  /\ startTime = [hh |-> 9, mm |-> 0]
  /\ RouteIdle
  /\ SchedIdle
  /\ ClientIdle
  /\ MatrixIdle
  /\ ServerIdle
  /\ ApiIdle

\* optimizeAppointments up to its totals, as a function of the page's state.
RunOptimizeAppointments ==
  /\ builder = "none"
  /\ builder' = "optimizeAppointments"
  /\ usedMatrix' = <<>>
  /\ optimizedRoute' = optimizeRouteWithDriving(appointments, startingLocation,
                                                usedMatrix', appointments)
  /\ totalDistance' = totalRoundTripDistance(optimizedRoute', startingLocation, DriveTable)
  /\ UNCHANGED <<inputVars, schedVars, clientVars, matrixVars, serverVars, apiVars>>

NextEdge ==
  \/ RunOptimizeRoundTripRoute
  \/ RunOptimizeAppointments

SpecEdge == InitEdge /\ [][NextEdge]_vars

\* d(p, q) of the builder that ran: haversine on the server, the measured
\* driving distance on the page.
BuilderDistance(p, q) ==
  IF builder = "optimizeRoundTripRoute"
    THEN calculateDistance(p, q)
    ELSE DriveTable[<<p, q>>].distance

\* C15: a round-trip builder returns an empty route and total 0 for zero
\* stops; for one stop it returns that stop alone, with total
\* d(origin, stop) + d(stop, origin) when an origin is set and 0 when not.
C15_RoundTripEdgeCases ==
  builder # "none"
    => /\ optimizedRoute = appointments
       /\ Len(appointments) = 0 => totalDistance = 0
       /\ Len(appointments) = 1 =>
            totalDistance =
              IF startingLocation.isSet
                THEN BuilderDistance(startingLocation.coordinates, CoordOf(appointments[1]))
                     + BuilderDistance(CoordOf(appointments[1]), startingLocation.coordinates)
                ELSE 0

\* One stop away from a set origin, measured by the provider, on the page.
C15_Witness ==
  /\ builder = "optimizeAppointments"
  /\ Len(appointments) = 1
  /\ startingLocation.isSet
  /\ googleStatus = "OK"
  /\ oneWay # {}
  /\ BuilderDistance(startingLocation.coordinates, CoordOf(appointments[1]))
       # BuilderDistance(CoordOf(appointments[1]), startingLocation.coordinates)
  /\ totalDistance > 0

\* ===================== SpecBoundary: coordinates at the endpoints' boundaries
\* Coordinates are degrees.  Each group holds coordinates at the end of a
\* range, one degree beyond it, or at zero; a request takes its coordinates
\* from one group.
BoundaryGroups ==
  { {Coord(90, 1), Coord(91, 1)},
    {Coord(-90, 1), Coord(-91, 1)},
    {Coord(1, 180), Coord(1, 181)},
    {Coord(1, -180), Coord(1, -181)},
    {Coord(0, 1), Coord(1, 1), Coord(1, 0)} }

BoundaryPairs == UNION {g \X g : g \in BoundaryGroups}

\* A JSON field of the request body: absent (undefined) or a number.
Absent == [defined |-> FALSE, value |-> 0]

Present(v) == [defined |-> TRUE, value |-> v]

BodyLatitudes == {Absent} \cup {Present(v) : v \in {-91, -90, 0, 1, 90, 91}}

BodyLongitudes == {Absent} \cup {Present(v) : v \in {-181, -180, 0, 1, 180, 181}}

\* parseFloat of a JSON number: the number.
parseFloat(field) == field.value

\* POST /api/appointments.  session: whether the request is authenticated;
\* rows: the table before the request.
appointmentsPOST(session, body, rows) ==
  IF ~session THEN [status |-> 401, created |-> <<>>]
  ELSE IF ~body.client \/ ~body.address
          \/ ~body.latitude.defined \/ ~body.longitude.defined
    THEN [status |-> 400, created |-> <<>>]
  ELSE [status |-> 201,
        created |-> <<[id |-> 10 * (Len(rows) + 1), userId |-> "u1",
                       latitude |-> parseFloat(body.latitude),
                       longitude |-> parseFloat(body.longitude),
                       duration |-> 60, optimizedOrder |-> 0,
                       suggestedTime |-> NoTime]>>]

\* What the provider may answer to a request of the boundary.
ProviderAnswers == {"OK", "INVALID_REQUEST", "ZERO_RESULTS", "THREW"}

ProviderAnswer(origins, destinations, answer) ==
  [threw |-> answer = "THREW",
   data |-> GoogleData(origins, destinations,
              IF answer = "INVALID_REQUEST" THEN answer ELSE "OK", {},
              IF answer = "ZERO_RESULTS"
                THEN (1..Len(origins)) \X (1..Len(destinations)) ELSE {})]

InitBoundary ==
  /\ appointments = <<>>
  /\ startingLocation = NoLocation
  /\ startTime = [hh |-> 9, mm |-> 0]
  /\ googleStatus = "OK"
  /\ oneWay = {}
  /\ RouteIdle
  /\ SchedIdle
  /\ ClientIdle
  /\ MatrixIdle
  /\ ServerIdle
  /\ ApiIdle

PostAppointment ==
  /\ apiRequest = NoRequest
  /\ \E session \in BOOLEAN, client \in BOOLEAN,
        latitude \in BodyLatitudes, longitude \in BodyLongitudes :
       LET body == [client |-> client, address |-> TRUE,
                    latitude |-> latitude, longitude |-> longitude]
           answer == appointmentsPOST(session, body, db)
       IN /\ apiRequest' = [endpoint |-> "/api/appointments", session |-> session,
                            body |-> body]
          /\ apiResponse' = answer
          /\ db' = answer.created \o db
  /\ UNCHANGED <<inputVars, routeVars, schedVars, clientVars, matrixVars, calls, deletes>>

PostDistance ==
  /\ apiRequest = NoRequest
  /\ \E session \in BOOLEAN, apiKey \in BOOLEAN, pq \in BoundaryPairs,
        answer \in ProviderAnswers :
       /\ apiRequest' = [endpoint |-> "/api/distance", session |-> session,
                         origin |-> pq[1], destination |-> pq[2]]
       /\ apiResponse' = distancePOST(session, pq[1], pq[2], apiKey,
                                      ProviderAnswer(<<pq[1]>>, <<pq[2]>>, answer))
  /\ UNCHANGED <<inputVars, routeVars, schedVars, clientVars, matrixVars, serverVars>>

PostDistanceMatrix ==
  /\ apiRequest = NoRequest
  /\ \E session \in BOOLEAN, apiKey \in BOOLEAN, pq \in BoundaryPairs,
        answer \in ProviderAnswers :
       \E origins \in {<<pq[1]>>, <<pq[1], pq[2]>>} :
         /\ apiRequest' = [endpoint |-> "/api/distance-matrix", session |-> session,
                           origins |-> origins, destinations |-> <<pq[2]>>]
         /\ apiResponse' = distanceMatrixPOST(session, origins, <<pq[2]>>, apiKey,
                                              ProviderAnswer(origins, <<pq[2]>>, answer))
  /\ UNCHANGED <<inputVars, routeVars, schedVars, clientVars, matrixVars, serverVars>>

NextBoundary ==
  \/ PostAppointment
  \/ PostDistance
  \/ PostDistanceMatrix

SpecBoundary == InitBoundary /\ [][NextBoundary]_vars

\* The coordinates a request carries.
RequestCoords(req) ==
  CASE req.endpoint = "/api/appointments" ->
         IF req.body.latitude.defined /\ req.body.longitude.defined
           THEN {Coord(req.body.latitude.value, req.body.longitude.value)}
           ELSE {}
    [] req.endpoint = "/api/distance" -> {req.origin, req.destination}
    [] req.endpoint = "/api/distance-matrix" ->
         Range(req.origins) \cup Range(req.destinations)
    [] OTHER -> {}

\* Latitude within [-90, 90] and longitude within [-180, 180].
InRange(c) == c.lat >= -90 /\ c.lat <= 90 /\ c.lng >= -180 /\ c.lng <= 180

\* C13: an authenticated request carrying a coordinate outside the valid
\* ranges is answered with the validation error, status 400, at each of the
\* three boundaries.
C13_OutOfRangeRejected ==
  (apiRequest # NoRequest /\ apiRequest.session
     /\ \E c \in RequestCoords(apiRequest) : ~InRange(c))
    => apiResponse.status = 400

\* The other half of C13: an authenticated, complete request whose
\* coordinates are all in range is accepted.
InRangeAccepted ==
  (apiRequest # NoRequest /\ apiRequest.session
     /\ RequestCoords(apiRequest) # {}
     /\ (apiRequest.endpoint = "/api/appointments" => apiRequest.body.client)
     /\ \A c \in RequestCoords(apiRequest) : InRange(c))
    => apiResponse.status \in {200, 201}

\* What the boundaries do check: an appointment without a latitude or a
\* longitude, and a distance request with a coordinate of 0, are answered 400;
\* nothing else about a coordinate is.
OnlyMissingOrZeroRejected ==
  (apiRequest # NoRequest /\ apiRequest.session)
    => (apiResponse.status = 400
          <=> CASE apiRequest.endpoint = "/api/appointments" ->
                     \/ ~apiRequest.body.client
                     \/ ~apiRequest.body.latitude.defined
                     \/ ~apiRequest.body.longitude.defined
                [] apiRequest.endpoint = "/api/distance" ->
                     \E c \in RequestCoords(apiRequest) : c.lat = 0 \/ c.lng = 0
                [] OTHER -> FALSE)

\* C29: a distance query whose origin is inside the valid ranges, a latitude
\* or longitude of exactly 0 included, is answered with a distance from that
\* origin and not rejected.  (The destination has no coordinate of 0.)
C29_ZeroOriginIsAnOrigin ==
  (apiRequest # NoRequest /\ apiRequest.endpoint = "/api/distance"
     /\ apiRequest.session
     /\ InRange(apiRequest.origin) /\ InRange(apiRequest.destination)
     /\ apiRequest.destination.lat # 0 /\ apiRequest.destination.lng # 0)
    => apiResponse.status = 200

\* The same for an origin without a coordinate of 0.
NonZeroOriginIsAnOrigin ==
  (apiRequest # NoRequest /\ apiRequest.endpoint = "/api/distance"
     /\ apiRequest.session
     /\ apiRequest.origin.lat # 0 /\ apiRequest.origin.lng # 0
     /\ apiRequest.destination.lat # 0 /\ apiRequest.destination.lng # 0)
    => apiResponse.status = 200

\* ============================ specification: the page while the list is edited
\* optimizeAppointments runs on the appointments of the render it was clicked
\* in, while addAppointment and removeAppointment (neither button is disabled
\* by isOptimizing) replace the list and clear the displayed result.
MaxPageStops == 2

\* Appointments ever created in one behaviour, the initial ones included.
MaxCreated == 3

PageStartingLocations == {NoLocation, [isSet |-> TRUE, coordinates |-> Coord(1, 1)]}

\* The addresses appointments of the page are at.
PageCoords == {Coord(0, 1), Coord(1, 1), Coord(1, 2)}

PageLists ==
  {<<>>} \cup {q \in AddressLists : Len(q) <= MaxPageStops /\ Range(q) \subseteq PageCoords}

InitPage ==
  /\ appointments \in {MkAppointments(q, [i \in 1..Len(q) |-> 60]) : q \in PageLists}
  /\ startingLocation \in PageStartingLocations
  /\ startTime = [hh |-> 9, mm |-> 0]
  /\ googleStatus = "OK"
  /\ oneWay = {}
  /\ RouteIdle
  /\ SchedIdle
  /\ ClientIdle
  /\ MatrixIdle
  /\ ServerIdle
  /\ ApiIdle

\* setOptimizedRoute([]), setScheduledAppointments([]), setTotalDistance(0),
\* setReturnTime(null)
ClearResults ==
  /\ optimizedRoute' = <<>>
  /\ suggestedTimes' = <<>>
  /\ arrivalInstants' = <<>>
  /\ totalDistance' = 0
  /\ returnTime' = NoTime

\* addAppointment, its POST answered ok: the created row is put in front of
\* the list and the displayed result is cleared.  Ids are never reused.  (A
\* POST answered otherwise changes nothing.)
addAppointment ==
  /\ Len(appointments) + deletes < MaxCreated
  /\ \E c \in PageCoords :
       /\ \A i \in 1..Len(appointments) :
            Coord(appointments[i].latitude, appointments[i].longitude) # c
       /\ LET newApp == [id |-> 10 * (Len(appointments) + deletes + 1),
                         latitude |-> c.lat, longitude |-> c.lng, duration |-> 60]
          IN appointments' = <<newApp>> \o appointments
  /\ ClearResults
  /\ UNCHANGED <<startingLocation, startTime, googleStatus, oneWay, builder, usedMatrix,
                 generator, clientVars, matrixVars, serverVars, apiVars>>

\* removeAppointment, its DELETE answered ok: the list without the row and
\* the displayed result cleared.  (A DELETE answered otherwise changes nothing.)
removeAppointment ==
  /\ deletes < MaxDeletes
  /\ \E k \in 1..Len(appointments) :
       appointments' = SelectSeq(appointments, LAMBDA apt : apt.id # appointments[k].id)
  /\ deletes' = deletes + 1
  /\ ClearResults
  /\ UNCHANGED <<startingLocation, startTime, googleStatus, oneWay, builder, usedMatrix,
                 generator, clientVars, matrixVars, db, calls, apiVars>>

\* Optimize is clicked again after an invocation has ended: a new invocation
\* with locals of its own, the displayed result as it is.
ClickOptimizeAgain ==
  /\ pc \in {"done", "failed"}
  /\ Len(appointments) # 0
  /\ ~isOptimizing
  /\ isOptimizing' = TRUE
  /\ renderedAppointments' = appointments
  /\ matrixOutcome' = "none"
  /\ optimizedAppointments' = <<>>
  /\ measuredLegs' = <<>>
  /\ usedMatrix' = <<>>
  /\ pc' = "routing"
  /\ UNCHANGED <<inputVars, builder, optimizedRoute, totalDistance, schedVars,
                 matrixVars, serverVars, apiVars>>

\* The client-side attempt throws: the provider answers the matrix request
\* with status OK and no rows, the endpoint maps them to an empty
\* distanceMatrix and answers 200, and optimizeSingleRoute reads
\* distanceMatrix[currentIndex][...] of it.  The catch block starts the
\* fetch of /api/optimize; no state has been set.
ClientSideThrows ==
  /\ pc = "routing"
  /\ Len(renderedAppointments) > 1
  /\ matrixOutcome' = "NO_ROWS"
  /\ pc' = "fallback"
  /\ UNCHANGED <<inputVars, routeVars, schedVars, matrixVars, serverVars, apiVars,
                 isOptimizing, optimizedAppointments, measuredLegs, renderedAppointments>>

\* The session user's rows as the table holds them when the fallback request
\* arrives: the page's list, which addAppointment and removeAppointment keep
\* in step with the table.
PageRows ==
  [i \in 1..Len(appointments) |->
     [id |-> appointments[i].id, userId |-> "u1",
      latitude |-> appointments[i].latitude, longitude |-> appointments[i].longitude,
      duration |-> appointments[i].duration, optimizedOrder |-> 0, suggestedTime |-> NoTime]]

\* What POST /api/optimize plans for the fallback request of the page.
FallbackPlan == optimizePOST("u1", PageRows, startTime, startingLocation)

\* routeWithCoordinates: result.optimizedRoute, the rows in optimizedOrder
\* with the suggestedTime written to them.
routeWithCoordinates(plan) ==
  [i \in 1..Len(plan.route) |->
     [id |-> plan.route[i].id, latitude |-> plan.route[i].latitude,
      longitude |-> plan.route[i].longitude, duration |-> plan.route[i].duration,
      isStart |-> FALSE, suggestedTime |-> plan.times[i]]]

\* The fallback fetch resolves with an ok response without resetting
\* isOptimizing.
FallbackSucceedsStillOptimizing ==
  /\ pc = "fallback"
  /\ FallbackPlan.status = 0
  /\ optimizedRoute' = routeWithCoordinates(FallbackPlan)
  /\ suggestedTimes' = FallbackPlan.times
  /\ arrivalInstants' =
       generateAppointmentTimes(FallbackPlan.route, startTime, MinutesPerMile).instants
  /\ totalDistance' = FallbackPlan.totalDistance
  /\ returnTime' = NoTime
  /\ builder' = "optimizeRoute"
  /\ generator' = "generateAppointmentTimes"
  /\ pc' = "done"
  /\ UNCHANGED <<inputVars, usedMatrix, matrixVars, serverVars, apiVars, isOptimizing,
                 matrixOutcome, optimizedAppointments, measuredLegs, renderedAppointments>>

\* The fallback fetch resolves with an ok response: the server's route, its
\* total and result.returnTime (the response has no such field) are stored;
\* the finally block resets isOptimizing.
FallbackSucceeds ==
  /\ pc = "fallback"
  /\ FallbackPlan.status = 0
  /\ optimizedRoute' = routeWithCoordinates(FallbackPlan)
  /\ suggestedTimes' = FallbackPlan.times
  /\ arrivalInstants' =
       generateAppointmentTimes(FallbackPlan.route, startTime, MinutesPerMile).instants
  /\ totalDistance' = FallbackPlan.totalDistance
  /\ returnTime' = NoTime
  /\ builder' = "optimizeRoute"
  /\ generator' = "generateAppointmentTimes"
  /\ isOptimizing' = FALSE
  /\ pc' = "done"
  /\ UNCHANGED <<inputVars, usedMatrix, matrixVars, serverVars, apiVars,
                 matrixOutcome, optimizedAppointments, measuredLegs, renderedAppointments>>

\* The fallback fails and the displayed result is cleared.
FallbackFailsClearing ==
  /\ pc = "fallback"
  /\ ClearResults
  /\ isOptimizing' = FALSE
  /\ pc' = "failed"
  /\ UNCHANGED <<inputVars, builder, usedMatrix, generator, matrixVars, serverVars, apiVars,
                 matrixOutcome, optimizedAppointments, measuredLegs, renderedAppointments>>

\* The fallback fetch rejects (network error) or resolves with a response
\* that is not ok (401, 400 for an empty table, 500): the error is logged and
\* the finally block resets isOptimizing.
FallbackFails ==
  /\ pc = "fallback"
  /\ isOptimizing' = FALSE
  /\ pc' = "failed"
  /\ UNCHANGED <<inputVars, routeVars, schedVars, matrixVars, serverVars, apiVars,
                 matrixOutcome, optimizedAppointments, measuredLegs, renderedAppointments>>

NextPage ==
  \/ ClickOptimize
  \/ ClickOptimizeAgain
  \/ RouteWithoutMatrix
  \/ MatrixSettles
  \/ ClientSideThrows
  \/ LegsSettle
  \/ FallbackSucceeds
  \/ FallbackFails
  \/ addAppointment
  \/ removeAppointment

SpecPage == InitPage /\ [][NextPage]_vars

\* The page with its starting location set and MaxPageStops appointments.
InitPageLive ==
  /\ InitPage
  /\ startingLocation.isSet
  /\ Len(appointments) = MaxPageStops

\* Every awaited request settles: the distance-matrix request, the
\* /api/distance requests and the fallback request.
SpecPageLive ==
  /\ InitPageLive
  /\ [][NextPage]_vars
  /\ WF_vars(RouteWithoutMatrix)
  /\ ([]<>(~(pc = "routing" /\ Len(renderedAppointments) > 1))
        \/ []<><<MatrixSettles \/ ClientSideThrows>>_vars)
  /\ ([]<>(pc # "measuring") \/ []<><<LegsSettle>>_vars)
  /\ ([]<>(pc # "fallback") \/ []<><<FallbackSucceeds \/ FallbackFails>>_vars)

\* The positions at which an invocation of optimizeAppointments is in progress.
InProgress == {"routing", "measuring", "fallback"}

\* C27: isOptimizing is true exactly while an invocation is in progress, and
\* every invocation ends with isOptimizing false, whichever path it takes,
\* when every awaited request settles.
C27_EndsNotOptimizing ==
  /\ [](isOptimizing <=> pc \in InProgress)
  /\ (isOptimizing ~> ~isOptimizing)

\* The client-side attempt failed, the fallback succeeded and the invocation
\* has ended.
C27_Witness ==
  /\ pc = "done"
  /\ matrixOutcome = "NO_ROWS"
  /\ builder = "optimizeRoute"
  /\ ~isOptimizing

\* C28: the steps of an invocation whose client-side attempt and fallback
\* both fail leave optimizedRoute, scheduledAppointments, totalDistance and
\* returnTime as they are.
C28_FailedCallKeepsResults ==
  [][(pc' # pc /\ pc' \in {"routing", "fallback", "failed"})
       => UNCHANGED <<optimizedRoute, suggestedTimes, arrivalInstants,
                      totalDistance, returnTime>>]_vars

\* Both attempts of a call have failed and the route of the call before it
\* is still displayed.
C28_Witness ==
  /\ pc = "failed"
  /\ matrixOutcome = "NO_ROWS"
  /\ optimizedRoute # <<>>
  /\ totalDistance > 0

\* The ids of the appointments in a list, the pseudo-stop of the starting
\* location left out.
ShownIds == {optimizedRoute[k].id : k \in {j \in 1..Len(optimizedRoute) : ~optimizedRoute[j].isStart}}

AppointmentIds == {appointments[i].id : i \in 1..Len(appointments)}

\* C24: the displayed route contains only appointments of the current list,
\* and a displayed route is one of the current list: it has every appointment
\* of it, also when the list was edited while the optimization was in flight.
C24_RouteOnlyCurrentAppointments ==
  optimizedRoute # <<>> => ShownIds = AppointmentIds

\* The same for the route of an invocation that has ended and saw the list
\* that is current now.
RouteOfUneditedListIsCurrent ==
  (optimizedRoute # <<>> /\ pc = "done" /\ renderedAppointments = appointments)
    => ShownIds = AppointmentIds

\* An edit that finds no invocation in flight leaves no route displayed.
EditAtRestClearsRoute ==
  [][((addAppointment \/ removeAppointment) /\ ~isOptimizing) => optimizedRoute' = <<>>]_vars

====
